---- MODULE Spec2Model ----
(***************************************************************************)
(* Model of dbhub's multi-source connection lifecycle (ConnectorManager),  *)
(* the execute_sql tool handler and the TDengine connector's executeSQL.   *)
(*                                                                         *)
(* JavaScript runs one callback at a time; an async function runs          *)
(* synchronously up to its first await.  Every action below is one such    *)
(* synchronous run: from a call or a promise settlement up to the next     *)
(* await.                                                                  *)
(***************************************************************************)
EXTENDS Integers, Sequences, FiniteSets, TLC

\* ------------------------------------------------------------------ bounds
NumSources == 2
MaxCalls == 3
MaxDisconnects == 1
MaxLen == 5

\* ---------------------------------------------------------------- literals
Undefined == 0
PrototypeInst == 1
RemotePort == 6041

SourceIdSet == 1..NumSources
UnknownId == NumSources + 1

SshKinds == {"none", "ok", "nouser", "noauth"}
Schemes == {"tdengine", "other"}

VARIABLES
  sources,             \* the SourceConfig[] handed to connectWithSources
  connectors,          \* Map<string, Connector>, in insertion order
  sshTunnels,          \* Map<string, SSHTunnel>, in insertion order
  sourceConfigs,       \* keys of Map<string, SourceConfig>
  sourceIds,           \* string[]
  lazySources,         \* keys of Map<string, SourceConfig>
  pendingConnections,  \* id -> index of the attempt whose promise is stored
  attempts,            \* every connectSource invocation and its position
  startup,             \* position of connectWithSources
  calls,               \* every ensureConnected call and its outcome
  connectLog,          \* connector.connect() invocations, in order
  cloneCount,          \* number of clone() invocations so far
  tunnelCount,         \* number of SSHTunnel objects created so far
  tunnelsUp,           \* tunnels whose establish() has succeeded and that are not closed
  dpc,                 \* position of disconnect()
  teardown,            \* teardown calls made by the running/last disconnect()
  snapshot,            \* connectors and tunnels held when disconnect() was called
  disconnectResult,    \* outcome of the last disconnect() call
  disconnects,         \* number of disconnect() calls so far
  sql,                 \* the SQL text of the call, as a sequence of lexemes
  readonly,            \* toolConfig.readonly / options.readonly
  maxRows,             \* toolConfig.max_rows / options.maxRows
  parameters,          \* number of parameters handed to executeSQL
  entry,               \* who calls executeSQL: the execute_sql tool or a direct caller
  toolSourceId,        \* the source id the tool handler is bound to
  hpc,                 \* position of the tool handler / direct caller
  hcall,               \* index in calls of the handler's ensureConnected call
  response,            \* the tool response
  tracked,             \* the success flag of every trackToolRequest call
  statements,          \* the statement list of the running executeSQL
  epc,                 \* index of the statement awaiting the engine (0: none)
  sent,                \* every statement the engine received, in order
  tableRows,           \* engine state: rows in the table
  allRows,             \* rows accumulated by executeSQL
  totalRowCount,       \* rowCount accumulated by executeSQL
  execResult,          \* outcome of executeSQL
  answered,            \* number of statements the engine has answered
  execError,           \* the error executeSQL threw ("none": none)
  connectionInfo,      \* TDengineConnector.connectionInfo is set (not null)
  authHeader,          \* TDengineConnector.authHeader is set (not null)
  cpc,                 \* position of the connector's connect()
  lifecycle,           \* the connector's last completed connect()/disconnect()
  uop,                 \* the utility function under study ("none": none)
  uin,                 \* its argument
  uout                 \* its result (done is FALSE before the call)

mvars == <<sources, connectors, sshTunnels, sourceConfigs, sourceIds,
           lazySources, pendingConnections, attempts, startup, calls,
           connectLog, cloneCount, tunnelCount, tunnelsUp, dpc, teardown,
           snapshot, disconnectResult, disconnects>>

svars == <<sql, readonly, maxRows, parameters, entry, toolSourceId, hpc, hcall,
           response, tracked, statements, epc, sent, tableRows, allRows,
           totalRowCount, execResult, answered, execError>>

uvars == <<uop, uin, uout>>

cvars == <<connectionInfo, authHeader, cpc, lifecycle>>

vars == <<mvars, svars, uvars, cvars>>

\* ------------------------------------------------- ordered Map<string, V>
MapHas(m, k) == \E i \in 1..Len(m) : m[i].k = k

MapGet(m, k) == m[CHOOSE i \in 1..Len(m) : m[i].k = k].v

MapSet(m, k, val) ==
  IF MapHas(m, k)
  THEN [i \in 1..Len(m) |-> IF m[i].k = k THEN [k |-> k, v |-> val] ELSE m[i]]
  ELSE Append(m, [k |-> k, v |-> val])

MapKeys(m) == {m[i].k : i \in 1..Len(m)}

MapValues(m) == {m[i].v : i \in 1..Len(m)}

SeqIncludesNever(s, x) == FALSE

\* Array.prototype.includes
SeqIncludes(s, x) == \E i \in 1..Len(s) : s[i] = x

\* ----------------------------------------------------------------- sources
SourceOf(id) == sources[CHOOSE i \in 1..Len(sources) : sources[i].id = id]

RECURSIVE FilterSources(_, _)
FilterSources(s, wantLazy) ==
  IF s = <<>> THEN <<>>
  ELSE IF Head(s).lazy = wantLazy
       THEN <<Head(s)>> \o FilterSources(Tail(s), wantLazy)
       ELSE FilterSources(Tail(s), wantLazy)

eagerSourcesUnfiltered == sources

\* const eagerSources = sources.filter(s => !s.lazy)
eagerSources == FilterSources(sources, FALSE)

lazySourceList == FilterSources(sources, TRUE)

\* ConnectorRegistry.getConnectorForDSN: the first registered connector whose
\* dsnParser.isValidDSN accepts the DSN; only the TDengine connector registers.
getConnectorForDSN(scheme) ==
  IF scheme = "tdengine" THEN PrototypeInst ELSE Undefined

cloneShared(proto, n) == proto

\* TDengineConnector.clone(): a new instance, never the receiver.
clone(proto, n) == proto + n + 1

\* ----------------------------------------------------------- connectSource
\* The DSN built by buildDSNFromSource: the source's own host and port.
buildDSNFromSource(cfg) == [scheme |-> cfg.scheme, host |-> "db", port |-> RemotePort]

\* tunnelInfo.localPort of tunnel t, as reported by SSHTunnel.establish.
localPort(t) == t

NewAttempt(cfg, by) ==
  [src |-> cfg.id, by |-> by, pc |-> "start", tunnel |-> Undefined,
   inst |-> Undefined, host |-> "", port |-> Undefined, err |-> ""]

\* connectSource from the registry lookup to the await of connector.connect().
ConnectSourceLookup(att, dsn, clones, log, up) ==
  LET connectorPrototype == getConnectorForDSN(dsn.scheme) IN
  IF connectorPrototype = Undefined
  THEN [att |-> [att EXCEPT !.pc = "threw", !.err = "noconnector",
                            !.host = dsn.host, !.port = dsn.port],
        clones |-> clones, log |-> log]
  ELSE LET connector == clone(connectorPrototype, clones) IN
       [att |-> [att EXCEPT !.pc = "connect", !.inst = connector,
                            !.host = dsn.host, !.port = dsn.port],
        clones |-> clones + 1,
        log |-> Append(log, [inst |-> connector, src |-> att.src,
                             host |-> dsn.host, port |-> dsn.port,
                             tunnel |-> att.tunnel,
                             established |-> att.tunnel \in up])]

\* connectSource from its call to its first await (or synchronous throw).
ConnectSourceStart(cfg, by, clones, log, tunnels) ==
  LET att == NewAttempt(cfg, by) IN
  IF cfg.ssh # "none"
  THEN IF cfg.ssh = "nouser"
       THEN [att |-> [att EXCEPT !.pc = "threw", !.err = "ssh_user"],
             clones |-> clones, log |-> log, tunnels |-> tunnels]
       ELSE IF cfg.ssh = "noauth"
       THEN [att |-> [att EXCEPT !.pc = "threw", !.err = "ssh_auth"],
             clones |-> clones, log |-> log, tunnels |-> tunnels]
       ELSE [att |-> [att EXCEPT !.pc = "establish", !.tunnel = tunnels + 1],
             clones |-> clones, log |-> log, tunnels |-> tunnels + 1]
  ELSE ConnectSourceLookup(att, buildDSNFromSource(cfg), clones, log, {})
          @@ [tunnels |-> tunnels]

\* The DSN after lines 181-184: host and port of the tunnel's local endpoint.
TunnelDSNUnrewritten(att) == buildDSNFromSource(SourceOf(att.src))

TunnelDSN(att) ==
  [buildDSNFromSource(SourceOf(att.src)) EXCEPT
     !.host = "127.0.0.1", !.port = localPort(att.tunnel)]

\* tunnel.establish() settled for attempt a.
TunnelSettled(a, ok) ==
  /\ a \in 1..Len(attempts)
  /\ attempts[a].pc = "establish"
  /\ IF ok
     THEN LET att == attempts[a]
              r == ConnectSourceLookup(att, TunnelDSN(att), cloneCount, connectLog,
                                       tunnelsUp \cup {att.tunnel})
          IN /\ tunnelsUp' = tunnelsUp \cup {att.tunnel}
             /\ sshTunnels' = MapSet(sshTunnels, att.src, att.tunnel)
             /\ attempts' = [attempts EXCEPT ![a] = r.att]
             /\ cloneCount' = r.clones
             /\ connectLog' = r.log
     ELSE /\ attempts' = [attempts EXCEPT ![a].pc = "threw", ![a].err = "tunnel"]
          /\ UNCHANGED <<sshTunnels, cloneCount, connectLog, tunnelsUp>>
  /\ UNCHANGED <<sources, connectors, sourceConfigs, sourceIds, lazySources,
                 pendingConnections, startup, calls, tunnelCount, dpc,
                 teardown, snapshot, disconnectResult, disconnects>>
  /\ UNCHANGED <<svars, uvars, cvars>>

\* connector.connect() settled for attempt a; on success connectSource runs to
\* its end (lines 226-235).
ConnectSettled(a, ok) ==
  /\ a \in 1..Len(attempts)
  /\ attempts[a].pc = "connect"
  /\ IF ok
     THEN LET att == attempts[a] IN
          /\ connectors' = MapSet(connectors, att.src, att.inst)
          /\ sourceIds' = IF SeqIncludes(sourceIds, att.src)
                          THEN sourceIds ELSE Append(sourceIds, att.src)
          /\ sourceConfigs' = sourceConfigs \cup {att.src}
          /\ attempts' = [attempts EXCEPT ![a].pc = "returned"]
     ELSE /\ attempts' = [attempts EXCEPT ![a].pc = "threw", ![a].err = "connect"]
          /\ UNCHANGED <<connectors, sourceIds, sourceConfigs>>
  /\ UNCHANGED <<sources, sshTunnels, lazySources, pendingConnections, startup,
                 calls, connectLog, cloneCount, tunnelCount, tunnelsUp, dpc,
                 teardown, snapshot, disconnectResult, disconnects>>
  /\ UNCHANGED <<svars, uvars, cvars>>

\* ------------------------------------------------------ connectWithSources
RECURSIVE SeqIds(_)
SeqIds(s) == IF s = <<>> THEN <<>> ELSE <<Head(s).id>> \o SeqIds(Tail(s))

\* The loop over lazySources: registerLazySource for each, in order.
RegisterLazySources ==
  /\ lazySources' = lazySources \cup {lazySourceList[i].id : i \in 1..Len(lazySourceList)}
  /\ sourceConfigs' = sourceConfigs \cup {lazySourceList[i].id : i \in 1..Len(lazySourceList)}
  /\ sourceIds' = sourceIds \o SeqIds(lazySourceList)

\* connectWithSources(sources) from its call to its first await.
ConnectWithSources ==
  /\ startup.pc = "idle"
  /\ IF Len(sources) = 0
     THEN /\ startup' = [pc |-> "failed", idx |-> 0]
          /\ UNCHANGED <<attempts, cloneCount, connectLog, tunnelCount,
                         lazySources, sourceConfigs, sourceIds>>
     ELSE IF Len(eagerSources) > 0
     THEN LET r == ConnectSourceStart(eagerSources[1], "eager", cloneCount,
                                      connectLog, tunnelCount) IN
          /\ attempts' = Append(attempts, r.att)
          /\ cloneCount' = r.clones
          /\ connectLog' = r.log
          /\ tunnelCount' = r.tunnels
          /\ startup' = [pc |-> "running", idx |-> 1]
          /\ UNCHANGED <<lazySources, sourceConfigs, sourceIds>>
     ELSE /\ RegisterLazySources
          /\ startup' = [pc |-> "done", idx |-> 0]
          /\ UNCHANGED <<attempts, cloneCount, connectLog, tunnelCount>>
  /\ UNCHANGED <<sources, connectors, sshTunnels, pendingConnections, calls,
                 tunnelsUp, dpc, teardown, snapshot, disconnectResult,
                 disconnects>>
  /\ UNCHANGED <<svars, uvars, cvars>>

\* `await this.connectSource(source)` throws when connectSource rejected.
ConnectSourceThrewIgnored(a) == FALSE

ConnectSourceThrew(a) == attempts[a].pc = "threw"

\* connectWithSources resumes after `await this.connectSource(source)`.
ConnectWithSourcesResume(a) ==
  /\ a \in 1..Len(attempts)
  /\ attempts[a].by = "eager"
  /\ attempts[a].pc \in {"returned", "threw"}
  /\ startup.pc = "running"
  /\ IF ConnectSourceThrew(a)
     THEN /\ startup' = [startup EXCEPT !.pc = "failed"]
          /\ attempts' = [attempts EXCEPT ![a].pc = "done"]
          /\ UNCHANGED <<cloneCount, connectLog, tunnelCount, lazySources,
                         sourceConfigs, sourceIds>>
     ELSE IF startup.idx < Len(eagerSources)
     THEN LET r == ConnectSourceStart(eagerSources[startup.idx + 1], "eager",
                                      cloneCount, connectLog, tunnelCount) IN
          /\ attempts' = Append([attempts EXCEPT ![a].pc = "done"], r.att)
          /\ cloneCount' = r.clones
          /\ connectLog' = r.log
          /\ tunnelCount' = r.tunnels
          /\ startup' = [startup EXCEPT !.idx = startup.idx + 1]
          /\ UNCHANGED <<lazySources, sourceConfigs, sourceIds>>
     ELSE /\ RegisterLazySources
          /\ startup' = [startup EXCEPT !.pc = "done"]
          /\ attempts' = [attempts EXCEPT ![a].pc = "done"]
          /\ UNCHANGED <<cloneCount, connectLog, tunnelCount>>
  /\ UNCHANGED <<sources, connectors, sshTunnels, pendingConnections, calls,
                 tunnelsUp, dpc, teardown, snapshot, disconnectResult,
                 disconnects>>
  /\ UNCHANGED <<svars, uvars, cvars>>

\* --------------------------------------------------------- ensureConnected
\* const id = sourceId || this.sourceIds[0]
DefaultedId(sourceId) ==
  IF sourceId # Undefined THEN sourceId
  ELSE IF Len(sourceIds) > 0 THEN sourceIds[1] ELSE Undefined

\* const pending = this.pendingConnections.get(id): 0 stands for undefined.
PendingForNone(id) == 0

PendingFor(id) == pendingConnections[id]

\* The error thrown for an id that is neither connected nor lazy (lines 91-97):
\* with a sourceId the message lists this.sourceIds, without one it lists none.
NotFoundError(sourceId) ==
  IF sourceId # Undefined THEN "notfound" ELSE "nosources"

NotFoundNamesNone(sourceId) == <<>>

NotFoundNames(sourceId) ==
  IF sourceId # Undefined THEN sourceIds ELSE <<>>

\* ensureConnected(sourceId) from its call to its return: the checks of lines
\* 84-104 and, when a new attempt starts, connectSource up to its first await
\* followed by pendingConnections.set.
ensureConnected(sourceId) ==
  /\ Len(calls) < MaxCalls
  /\ startup.pc \in {"running", "done", "failed"}
  /\ LET id == DefaultedId(sourceId) IN
     IF MapHas(connectors, id)
     THEN /\ calls' = Append(calls, [id |-> id, arg |-> sourceId, attempt |-> 0,
                                     result |-> "ok", named |-> <<>>])
          /\ UNCHANGED <<attempts, pendingConnections, cloneCount, connectLog,
                         tunnelCount>>
     ELSE IF id \notin lazySources
     THEN /\ calls' = Append(calls, [id |-> id, arg |-> sourceId, attempt |-> 0,
                                     result |-> NotFoundError(sourceId),
                                     named |-> NotFoundNames(sourceId)])
          /\ UNCHANGED <<attempts, pendingConnections, cloneCount, connectLog,
                         tunnelCount>>
     ELSE IF PendingFor(id) # 0
     THEN /\ calls' = Append(calls, [id |-> id, arg |-> sourceId,
                                     attempt |-> PendingFor(id),
                                     result |-> "pending", named |-> <<>>])
          /\ UNCHANGED <<attempts, pendingConnections, cloneCount, connectLog,
                         tunnelCount>>
     ELSE LET r == ConnectSourceStart(SourceOf(id), "lazy", cloneCount,
                                      connectLog, tunnelCount) IN
          /\ attempts' = Append(attempts, r.att)
          /\ cloneCount' = r.clones
          /\ connectLog' = r.log
          /\ tunnelCount' = r.tunnels
          /\ pendingConnections' = [pendingConnections EXCEPT
                                      ![id] = Len(attempts) + 1]
          /\ calls' = Append(calls, [id |-> id, arg |-> sourceId,
                                     attempt |-> Len(attempts) + 1,
                                     result |-> "pending", named |-> <<>>])
  /\ UNCHANGED <<sources, connectors, sshTunnels, sourceConfigs, sourceIds,
                 lazySources, startup, tunnelsUp, dpc, teardown, snapshot,
                 disconnectResult, disconnects>>

\* this.lazySources.delete(id), reached only when connectSource returned.
LazyAfterSettleKept(att) == lazySources

LazyAfterSettle(att) ==
  IF att.pc = "returned" THEN lazySources \ {att.src} ELSE lazySources

PendingAfterSettleNever(att) == pendingConnections

\* finally { this.pendingConnections.delete(id) }
PendingAfterSettleOnSuccess(att) ==
  IF att.pc = "returned"
  THEN [pendingConnections EXCEPT ![att.src] = 0] ELSE pendingConnections

PendingAfterSettle(att) == [pendingConnections EXCEPT ![att.src] = 0]

SettledResultOnSuccess(att) ==
  IF att.pc = "returned" THEN "ok" ELSE "pending"

\* The connection promise resolves when connectSource returned and rejects
\* with its error when it threw (try/finally without catch).
SettledResult(att) ==
  IF att.pc = "returned" THEN "ok" ELSE "failed"

\* The connection promise of ensureConnected resumes after
\* `await this.connectSource(lazySource)` (lines 111-116) and settles; every
\* caller that was handed this promise settles with it.
ensureConnectedResume(a) ==
  /\ a \in 1..Len(attempts)
  /\ attempts[a].by = "lazy"
  /\ attempts[a].pc \in {"returned", "threw"}
  /\ LET att == attempts[a] IN
     /\ lazySources' = LazyAfterSettle(att)
     /\ pendingConnections' = PendingAfterSettle(att)
     /\ attempts' = [attempts EXCEPT ![a].pc = "done"]
     /\ calls' = [i \in 1..Len(calls) |->
                    IF calls[i].attempt = a /\ calls[i].result = "pending"
                    THEN [calls[i] EXCEPT !.result = SettledResult(att)]
                    ELSE calls[i]]
  /\ UNCHANGED <<sources, connectors, sshTunnels, sourceConfigs, sourceIds,
                 startup, connectLog, cloneCount, tunnelCount, tunnelsUp, dpc,
                 teardown, snapshot, disconnectResult, disconnects>>
  /\ UNCHANGED <<svars, uvars, cvars>>

\* -------------------------------------------------------------- disconnect
NoTeardown == [phase |-> "idle", idx |-> 0, key |-> Undefined, ref |-> Undefined]

\* disconnect() from a loop position to its next await, or to its end: the
\* Map iterators are live, so an entry added while disconnect() is suspended
\* is visited when it lies behind the iterator, and the value torn down is the
\* one the entry holds when the iterator reaches it.
DisconnectAdvance(phase, idx, log) ==
  IF phase = "conn" /\ idx < Len(connectors)
  THEN /\ dpc' = [phase |-> "conn", idx |-> idx + 1,
                  key |-> connectors[idx + 1].k, ref |-> connectors[idx + 1].v]
       /\ teardown' = log
       /\ disconnectResult' = "running"
       /\ UNCHANGED <<connectors, sshTunnels, sourceConfigs, lazySources,
                      pendingConnections, sourceIds>>
  ELSE LET tidx == IF phase = "conn" THEN 0 ELSE idx IN
       IF tidx < Len(sshTunnels)
       THEN /\ dpc' = [phase |-> "tun", idx |-> tidx + 1,
                       key |-> sshTunnels[tidx + 1].k,
                       ref |-> sshTunnels[tidx + 1].v]
            /\ teardown' = log
            /\ disconnectResult' = "running"
            /\ UNCHANGED <<connectors, sshTunnels, sourceConfigs, lazySources,
                           pendingConnections, sourceIds>>
       ELSE /\ dpc' = NoTeardown
            /\ teardown' = log
            /\ connectors' = <<>>
            /\ sshTunnels' = <<>>
            /\ sourceConfigs' = {}
            /\ lazySources' = {}
            /\ pendingConnections' = [i \in SourceIdSet |-> 0]
            /\ sourceIds' = <<>>
            /\ disconnectResult' = "ok"

\* disconnect() is called and runs to its first await (or to its end).
disconnect ==
  /\ dpc.phase = "idle"
  /\ startup.pc \in {"done", "failed"}
  /\ disconnects < MaxDisconnects
  /\ disconnects' = disconnects + 1
  /\ snapshot' = [conns |-> MapKeys(connectors), tuns |-> MapKeys(sshTunnels)]
  /\ DisconnectAdvance("conn", 0, <<>>)
  /\ UNCHANGED <<sources, attempts, startup, calls, connectLog, cloneCount,
                 tunnelCount, tunnelsUp>>
  /\ UNCHANGED <<svars, uvars, cvars>>

\* try { await ... } catch (error) { console.error(...) }: the loop goes on
\* whether the teardown call succeeded or not.
LoopContinuesOnSuccessOnly(ok) == ok

LoopContinues(ok) == TRUE

\* connector.disconnect() or tunnel.close() settled.
TeardownSettled(ok) ==
  /\ dpc.phase \in {"conn", "tun"}
  /\ LET log == Append(teardown, [kind |-> dpc.phase, key |-> dpc.key,
                                  ref |-> dpc.ref, ok |-> ok])
     IN IF LoopContinues(ok)
        THEN DisconnectAdvance(dpc.phase, dpc.idx, log)
        ELSE /\ dpc' = NoTeardown
             /\ teardown' = log
             /\ disconnectResult' = "threw"
             /\ UNCHANGED <<connectors, sshTunnels, sourceConfigs, lazySources,
                            pendingConnections, sourceIds>>
  /\ tunnelsUp' = IF dpc.phase = "tun" /\ ok THEN tunnelsUp \ {dpc.ref}
                  ELSE tunnelsUp
  /\ UNCHANGED <<sources, attempts, startup, calls, connectLog, cloneCount,
                 tunnelCount, snapshot, disconnects>>
  /\ UNCHANGED <<svars, uvars, cvars>>

\* ------------------------------------------------------------ SQL analysis
\* A SQL text is the sequence of its lexemes, separated by blanks: words,
\* the semicolon, the block-comment delimiters and the single quote.
Lexemes == {"select", "insert", ";", "/*", "*/", "'", "--", "\n"}

Dialects == {"postgres", "mysql", "mariadb", "sqlite", "sqlserver", "tdengine"}

allowedKeywords ==
  [d \in Dialects |->
     CASE d = "postgres" -> {"select", "with", "explain", "analyze", "show"}
       [] d = "mysql" -> {"select", "with", "explain", "analyze", "show", "describe", "desc"}
       [] d = "mariadb" -> {"select", "with", "explain", "analyze", "show", "describe", "desc"}
       [] d = "sqlite" -> {"select", "with", "explain", "analyze", "pragma"}
       [] d = "sqlserver" -> {"select", "with", "explain", "showplan"}
       [] d = "tdengine" -> {"select", "with", "explain", "show", "describe", "desc"}]

\* The rest of s after the first occurrence of lexeme x (empty if there is none).
RECURSIVE SkipPast(_, _)
SkipPast(s, x) ==
  IF s = <<>> THEN <<>>
  ELSE IF Head(s) = x THEN Tail(s) ELSE SkipPast(Tail(s), x)

\* stripCommentsAndStrings: line comments, block comments, single-quoted
\* strings and double-quoted identifiers are each replaced by a blank; a line
\* comment ends with its line, an unterminated block comment or string runs to
\* the end of the text.  The lexeme '' is two quotes with nothing between:
\* an empty string outside a string, an escaped quote inside one.  The result
\* is given as the sequence of the words that remain (line ends are white
\* space).
RECURSIVE stripCommentsAndStrings(_)
stripCommentsAndStrings(s) ==
  IF s = <<>> THEN <<>>
  ELSE IF Head(s) = "/*" THEN stripCommentsAndStrings(SkipPast(Tail(s), "*/"))
  ELSE IF Head(s) = "'" THEN stripCommentsAndStrings(SkipPast(Tail(s), "'"))
  ELSE IF Head(s) = "\"" THEN stripCommentsAndStrings(SkipPast(Tail(s), "\""))
  ELSE IF Head(s) = "''" THEN stripCommentsAndStrings(Tail(s))
  ELSE IF Head(s) = "--" THEN stripCommentsAndStrings(SkipPast(Tail(s), "\n"))
  ELSE IF Head(s) = "\n" THEN stripCommentsAndStrings(Tail(s))
  ELSE <<Head(s)>> \o stripCommentsAndStrings(Tail(s))

\* String.prototype.toLowerCase on a word; the words written in capitals are
\* the only ones with a capital letter.
toLowerCase(w) ==
  CASE w = "SELECT" -> "select"
    [] w = "PRAGMA" -> "pragma"
    [] OTHER -> w

isReadOnlySQLFirstLexeme(s, connectorType) ==
  s = <<>> \/ (connectorType \in Dialects
                 /\ toLowerCase(Head(s)) \in allowedKeywords[connectorType])

\* isReadOnlySQL(sql, connectorType)
isReadOnlySQL(s, connectorType) ==
  LET cleanedSQL == stripCommentsAndStrings(s) IN
  IF cleanedSQL = <<>> THEN TRUE
  ELSE LET firstWord == toLowerCase(cleanedSQL[1])
           keywordList == IF connectorType \in Dialects
                          THEN allowedKeywords[connectorType] ELSE {}
       IN firstWord \in keywordList

\* sql.split(';'): cut at every semicolon, wherever it stands.
RECURSIVE SplitAtSemicolons(_, _)
SplitAtSemicolons(s, cur) ==
  IF s = <<>> THEN <<cur>>
  ELSE IF Head(s) = ";" THEN <<cur>> \o SplitAtSemicolons(Tail(s), <<>>)
  ELSE SplitAtSemicolons(Tail(s), Append(cur, Head(s)))

\* String.prototype.trim: white space at both ends is dropped.
RECURSIVE TrimStart(_)
TrimStart(s) ==
  IF s # <<>> /\ Head(s) = "\n" THEN TrimStart(Tail(s)) ELSE s

RECURSIVE TrimEnd(_)
TrimEnd(s) ==
  IF s # <<>> /\ s[Len(s)] = "\n" THEN TrimEnd(SubSeq(s, 1, Len(s) - 1)) ELSE s

Trim(s) == TrimEnd(TrimStart(s))

\* .map(statement => statement.trim()).filter(statement => statement.length > 0)
RECURSIVE FilterNonEmpty(_)
FilterNonEmpty(ss) ==
  IF ss = <<>> THEN <<>>
  ELSE IF Trim(Head(ss)) = <<>> THEN FilterNonEmpty(Tail(ss))
  ELSE <<Trim(Head(ss))>> \o FilterNonEmpty(Tail(ss))

\* splitSQLStatements of the execute_sql tool.
splitSQLStatements(s) == FilterNonEmpty(SplitAtSemicolons(s, <<>>))

\* areAllStatementsReadOnly of the execute_sql tool.
areAllStatementsReadOnly(s, connectorType) ==
  LET stmts == splitSQLStatements(s) IN
  \A i \in 1..Len(stmts) : isReadOnlySQL(stmts[i], connectorType)

\* The split of section 4.2: only at semicolons outside strings and comments.
\* mode is "" outside, else the lexeme that closes the open string or comment.
RECURSIVE SplitTopLevel(_, _, _)
SplitTopLevel(s, cur, mode) ==
  IF s = <<>> THEN <<cur>>
  ELSE LET h == Head(s) IN
       IF mode # ""
       THEN SplitTopLevel(Tail(s), Append(cur, h), IF h = mode THEN "" ELSE mode)
       ELSE IF h = ";" THEN <<cur>> \o SplitTopLevel(Tail(s), <<>>, "")
       ELSE SplitTopLevel(Tail(s), Append(cur, h),
                          IF h = "/*" THEN "*/"
                          ELSE IF h = "'" THEN "'"
                          ELSE IF h = "--" THEN "\n" ELSE "")

TopLevelStatements(s) == FilterNonEmpty(SplitTopLevel(s, <<>>, ""))

\* A trailing LIMIT n clause, one lexeme per n.
LimitOf == ("limit 1" :> 1) @@ ("limit 2" :> 2) @@ ("limit 3" :> 3)

LimitClause(n) == CHOOSE x \in DOMAIN LimitOf : LimitOf[x] = n

Min(a, b) == IF a <= b THEN a ELSE b

HasLimit(stmt) == stmt # <<>> /\ stmt[Len(stmt)] \in DOMAIN LimitOf

StartsWithCTE(stmt) ==
  LET words == stripCommentsAndStrings(stmt) IN words # <<>> /\ words[1] = "with"

applyMaxRowsAlways(stmt, m) ==
  IF m = Undefined THEN stmt
  ELSE IF HasLimit(stmt)
  THEN SubSeq(stmt, 1, Len(stmt) - 1) \o <<LimitClause(m)>>
  ELSE stmt \o <<LimitClause(m)>>

\* SQLRowLimiter.applyMaxRows (section 4.4): without maxRows nothing is
\* rewritten; a statement that begins with WITH is left alone; an existing
\* trailing LIMIT n becomes LIMIT min(n, maxRows); otherwise LIMIT maxRows is
\* appended.
applyMaxRows(stmt, m) ==
  IF m = Undefined THEN stmt
  ELSE IF StartsWithCTE(stmt) THEN stmt
  ELSE IF HasLimit(stmt)
  THEN SubSeq(stmt, 1, Len(stmt) - 1)
         \o <<LimitClause(Min(LimitOf[stmt[Len(stmt)]], m))>>
  ELSE stmt \o <<LimitClause(m)>>

\* What is still open at the end of a text: "" if nothing, else the lexeme
\* that would close the open string, identifier or comment.
RECURSIVE OpenAtEnd(_, _)
OpenAtEnd(s, mode) ==
  IF s = <<>> THEN mode
  ELSE LET h == Head(s) IN
       IF mode # "" THEN OpenAtEnd(Tail(s), IF h = mode THEN "" ELSE mode)
       ELSE OpenAtEnd(Tail(s), CASE h = "/*" -> "*/"
                                 [] h = "'" -> "'"
                                 [] h = "\"" -> "\""
                                 [] h = "--" -> "\n"
                                 [] OTHER -> "")

\* The engine answers a request with an error (code # 0, lines 338-342) at
\* least when a string or a block comment in it is not closed.
EngineAccepts(request) == OpenAtEnd(request, "") \in {"", "\n"}

\* The number of rows the engine returns for a query on a table of n rows.
EngineRows(request, n) ==
  IF HasLimit(request) THEN Min(LimitOf[request[Len(request)]], n) ELSE n

\* --------------------------------------------- TDengineConnector.executeSQL
\* The id of every connector instance the manager holds (TDengineConnector.id).
ConnectorTypeOf(inst) == "tdengine"

RECURSIVE Reverse(_)
Reverse(s) == IF s = <<>> THEN <<>> ELSE Append(Reverse(Tail(s)), Head(s))

TdStatementsReversed(s) == Reverse(FilterNonEmpty(SplitAtSemicolons(s, <<>>)))

\* The statement list of TDengineConnector.executeSQL (lines 224-227).
TdStatements(s) == FilterNonEmpty(SplitAtSemicolons(s, <<>>))

\* The statement as handed to executeRaw (lines 233-236).
TdProcessed(stmt, m) ==
  IF isReadOnlySQL(stmt, "tdengine") THEN applyMaxRows(stmt, m) ELSE stmt

RejectsParametersNever(params) == FALSE

\* if (parameters && parameters.length > 0) throw (lines 220-222)
RejectsParameters(params) == params > 0

trackToolRequestAsSuccess(success) == Append(tracked, TRUE)

\* finally { trackToolRequest(..., success, errorMessage) } of the tool handler.
trackToolRequest(success) == Append(tracked, success)

\* executeRaw throws when connectionInfo or authHeader is missing (lines 304-306).
executeRawRejects == ~connectionInfo \/ ~authHeader

\* if (!this.connectionInfo) throw new Error("Not connected to database")
NotConnected == ~connectionInfo

\* executeSQL rejects with error err; the tool handler, if it is the caller,
\* catches it, responds and tracks the request.
ExecuteSQLThrows(caller, err) ==
  /\ execResult' = "threw"
  /\ execError' = err
  /\ hpc' = "done"
  /\ response' = IF caller = "tool" THEN "EXECUTION_ERROR" ELSE response
  /\ tracked' = IF caller = "tool" THEN trackToolRequest(FALSE) ELSE tracked

\* executeSQL(sql, options, parameters) from its call to its first await.
\* caller is "tool" or "direct"; the tool handler goes on with the outcome.
ExecuteSQLStart(caller) ==
  LET params == IF caller = "tool" THEN 0 ELSE parameters
      stmts == TdStatements(sql)
  IN IF NotConnected
     THEN /\ ExecuteSQLThrows(caller, "Not connected to database")
          /\ UNCHANGED <<statements, epc, sent>>
     ELSE IF RejectsParameters(params)
     THEN /\ ExecuteSQLThrows(caller, "parameters")
          /\ UNCHANGED <<statements, epc, sent>>
     ELSE IF stmts = <<>>
     THEN /\ execResult' = "ok"
          /\ hpc' = "done"
          /\ response' = IF caller = "tool" THEN "success" ELSE response
          /\ tracked' = IF caller = "tool" THEN trackToolRequest(TRUE) ELSE tracked
          /\ statements' = stmts
          /\ UNCHANGED <<epc, sent, execError>>
     ELSE IF executeRawRejects
     THEN /\ ExecuteSQLThrows(caller, "Not connected to database")
          /\ statements' = stmts
          /\ UNCHANGED <<epc, sent>>
     ELSE /\ execResult' = "running"
          /\ hpc' = "exec"
          /\ statements' = stmts
          /\ epc' = 1
          /\ sent' = Append(sent, TdProcessed(stmts[1], maxRows))
          /\ UNCHANGED <<response, tracked, execError>>

\* A direct caller invokes connector.executeSQL(sql, {readonly, maxRows}, parameters).
DirectExecuteSQL ==
  /\ entry = "direct"
  /\ hpc = "idle"
  /\ ExecuteSQLStart("direct")
  /\ UNCHANGED <<sql, readonly, maxRows, parameters, entry, toolSourceId, hcall,
                 tableRows, allRows, totalRowCount, answered>>
  /\ UNCHANGED <<mvars, uvars, cvars>>

\* The engine answered the statement executeRaw sent (lines 237-249); the
\* tool handler, if it is the caller, runs on to its response and tracking.
EngineSettled(ok) ==
  /\ hpc = "exec"
  /\ epc > 0
  /\ ok => EngineAccepts(sent[Len(sent)])
  /\ LET stmt == statements[epc]
         isQuery == isReadOnlySQL(stmt, "tdengine")
         request == sent[Len(sent)]
         words == stripCommentsAndStrings(request)
         isInsert == words # <<>> /\ words[1] = "insert"
         returned == EngineRows(request, tableRows)
     IN IF ~ok
        THEN /\ ExecuteSQLThrows(entry, "engine")
             /\ epc' = 0
             /\ UNCHANGED <<sent, tableRows, allRows, totalRowCount>>
        ELSE /\ tableRows' = IF isInsert THEN tableRows + 1 ELSE tableRows
             /\ allRows' = IF isQuery
                           THEN Append(allRows, [stmt |-> epc, total |-> tableRows,
                                                 rows |-> returned])
                           ELSE allRows
             /\ totalRowCount' = IF isQuery THEN totalRowCount + returned
                                 ELSE IF isInsert THEN totalRowCount + 1
                                 ELSE totalRowCount
             /\ IF epc < Len(statements) /\ executeRawRejects
                THEN /\ ExecuteSQLThrows(entry, "Not connected to database")
                     /\ epc' = 0
                     /\ UNCHANGED sent
                ELSE IF epc < Len(statements)
                THEN /\ epc' = epc + 1
                     /\ sent' = Append(sent, TdProcessed(statements[epc + 1], maxRows))
                     /\ UNCHANGED <<execResult, hpc, response, tracked, execError>>
                ELSE /\ epc' = 0
                     /\ execResult' = "ok"
                     /\ hpc' = "done"
                     /\ response' = IF entry = "tool" THEN "success" ELSE response
                     /\ tracked' = IF entry = "tool" THEN trackToolRequest(TRUE)
                                   ELSE tracked
                     /\ UNCHANGED <<sent, execError>>
  /\ answered' = answered + 1
  /\ UNCHANGED <<sql, readonly, maxRows, parameters, entry, toolSourceId, hcall,
                 statements>>
  /\ UNCHANGED <<mvars, uvars, cvars>>

\* ------------------------------------------------- execute_sql tool handler
\* The handler is invoked: it runs to `await ConnectorManager.ensureConnected`.
ExecuteSqlTool ==
  /\ entry = "tool"
  /\ hpc = "idle"
  /\ ensureConnected(toolSourceId)
  /\ hpc' = "ensure"
  /\ hcall' = Len(calls) + 1
  /\ UNCHANGED <<sql, readonly, maxRows, parameters, entry, toolSourceId,
                 response, tracked, statements, epc, sent, tableRows, allRows,
                 totalRowCount, execResult, answered, execError>>
  /\ UNCHANGED <<uvars, cvars>>

\* The handler resumes after ensureConnected settled (lines 59-81, 91-108).
ExecuteSqlToolResume ==
  /\ hpc = "ensure"
  /\ calls[hcall].result # "pending"
  /\ LET id == DefaultedId(toolSourceId) IN
     IF calls[hcall].result # "ok" \/ ~MapHas(connectors, id)
     THEN /\ response' = "EXECUTION_ERROR"
          /\ tracked' = trackToolRequest(FALSE)
          /\ hpc' = "done"
          /\ UNCHANGED <<statements, epc, sent, execResult, execError>>
     ELSE LET connector == MapGet(connectors, id)
              isReadonly == readonly = TRUE
          IN IF isReadonly /\ ~areAllStatementsReadOnly(sql, ConnectorTypeOf(connector))
             THEN /\ response' = "READONLY_VIOLATION"
                  /\ tracked' = trackToolRequest(FALSE)
                  /\ hpc' = "done"
                  /\ UNCHANGED <<statements, epc, sent, execResult, execError>>
             ELSE ExecuteSQLStart("tool")
  /\ UNCHANGED <<sql, readonly, maxRows, parameters, entry, toolSourceId, hcall,
                 tableRows, allRows, totalRowCount, answered>>
  /\ UNCHANGED <<mvars, uvars, cvars>>

\* ------------------------------------------ TDengineConnector connect/disconnect
\* A connector as constructed (lines 107-108).
ConnectorNew ==
  /\ connectionInfo = FALSE
  /\ authHeader = FALSE
  /\ cpc = "idle"
  /\ lifecycle = "new"

\* A connector whose connect() has succeeded.
ConnectorConnected ==
  /\ connectionInfo = TRUE
  /\ authHeader = TRUE
  /\ cpc = "idle"
  /\ lifecycle = "connected"

\* connect(dsn) from its call to `await this.dsnParser.parse(dsn, config)`.
Connect ==
  /\ cpc = "idle"
  /\ cpc' = "parse"
  /\ UNCHANGED <<connectionInfo, authHeader, lifecycle>>
  /\ UNCHANGED <<mvars, svars, uvars>>

\* dsnParser.parse settled: on success connect() stores connectionInfo and
\* authHeader and sends the test query (lines 126-137); on failure it rethrows.
ParseSettled(ok) ==
  /\ cpc = "parse"
  /\ IF ok
     THEN /\ connectionInfo' = TRUE
          /\ authHeader' = TRUE
          /\ cpc' = "test"
          /\ UNCHANGED lifecycle
     ELSE /\ cpc' = "idle"
          /\ lifecycle' = "parsefailed"
          /\ UNCHANGED <<connectionInfo, authHeader>>
  /\ UNCHANGED <<mvars, svars, uvars>>

\* The test query settled: connect() returns, or logs and rethrows the error
\* (lines 137-141).
TestQuerySettled(ok) ==
  /\ cpc = "test"
  /\ cpc' = "idle"
  /\ lifecycle' = IF ok THEN "connected" ELSE "testfailed"
  /\ UNCHANGED <<connectionInfo, authHeader>>
  /\ UNCHANGED <<mvars, svars, uvars>>

\* TDengineConnector.disconnect() (lines 144-147).
ConnectorDisconnect ==
  /\ connectionInfo' = FALSE
  /\ authHeader' = FALSE
  /\ lifecycle' = "disconnected"
  /\ UNCHANGED cpc
  /\ UNCHANGED <<mvars, svars, uvars>>

\* ------------------------------------------------------------ specification
SourceConfigs == [id : SourceIdSet, lazy : BOOLEAN, ssh : SshKinds, scheme : Schemes]

ConfigLists ==
  UNION {{s \in [1..n -> SourceConfigs] : \A i \in 1..n : s[i].id = i} :
           n \in 0..NumSources}

SqlIdle ==
  /\ sql = <<>>
  /\ readonly = FALSE
  /\ maxRows = Undefined
  /\ parameters = 0
  /\ entry = "none"
  /\ toolSourceId = Undefined
  /\ hpc = "idle"
  /\ hcall = 0
  /\ response = "none"
  /\ tracked = <<>>
  /\ statements = <<>>
  /\ epc = 0
  /\ sent = <<>>
  /\ tableRows = 0
  /\ allRows = <<>>
  /\ totalRowCount = 0
  /\ execResult = "none"
  /\ answered = 0
  /\ execError = "none"

NoResult == [done |-> FALSE]

UtilIdle ==
  /\ uop = "none"
  /\ uin = <<>>
  /\ uout = NoResult

Init ==
  /\ SqlIdle
  /\ UtilIdle
  /\ ConnectorNew
  /\ sources \in ConfigLists
  /\ connectors = <<>>
  /\ sshTunnels = <<>>
  /\ sourceConfigs = {}
  /\ sourceIds = <<>>
  /\ lazySources = {}
  /\ pendingConnections = [i \in SourceIdSet |-> 0]
  /\ attempts = <<>>
  /\ startup = [pc |-> "idle", idx |-> 0]
  /\ calls = <<>>
  /\ connectLog = <<>>
  /\ cloneCount = 0
  /\ tunnelCount = 0
  /\ tunnelsUp = {}
  /\ dpc = NoTeardown
  /\ teardown = <<>>
  /\ snapshot = [conns |-> {}, tuns |-> {}]
  /\ disconnectResult = "none"
  /\ disconnects = 0

EnsureConnectedCall ==
  \E sourceId \in {Undefined} \cup SourceIdSet \cup {UnknownId} :
     ensureConnected(sourceId) /\ UNCHANGED <<svars, uvars, cvars>>

Next ==
  \/ ConnectWithSources
  \/ \E a \in 1..Len(attempts) : ConnectWithSourcesResume(a)
  \/ \E a \in 1..Len(attempts), ok \in BOOLEAN : TunnelSettled(a, ok)
  \/ \E a \in 1..Len(attempts), ok \in BOOLEAN : ConnectSettled(a, ok)
  \/ EnsureConnectedCall
  \/ \E a \in 1..Len(attempts) : ensureConnectedResume(a)
  \/ disconnect
  \/ \E ok \in BOOLEAN : TeardownSettled(ok)

Spec == Init /\ [][Next]_vars

\* ------------------------------------------- the manager under fair settling
\* Configurations of an eager source followed by lazy ones, each with a
\* connector for its DSN and, if it has a tunnel, a complete SSH config.
InitLive ==
  /\ Init
  /\ Len(sources) = NumSources
  /\ \A i \in 1..Len(sources) :
        /\ sources[i].scheme = "tdengine"
        /\ sources[i].ssh \in {"none", "ok"}
        /\ sources[i].lazy = (i > 1)

\* Every tunnel.establish() and every connector.connect() settles, and a
\* settled promise's continuation is run by the event loop.
Settling ==
  /\ WF_vars(\E a \in 1..Len(attempts), ok \in BOOLEAN : TunnelSettled(a, ok))
  /\ WF_vars(\E a \in 1..Len(attempts), ok \in BOOLEAN : ConnectSettled(a, ok))
  /\ WF_vars(\E a \in 1..Len(attempts) : ensureConnectedResume(a))
  /\ WF_vars(\E a \in 1..Len(attempts) : ConnectWithSourcesResume(a))

SpecLive == InitLive /\ [][Next]_vars /\ Settling

\* --------------------------------- the execute_sql tool and executeSQL alone
\* The manager after a startup with one eager TDengine source, connected.
ManagerWithOneSource ==
  /\ sources = <<[id |-> 1, lazy |-> FALSE, ssh |-> "none", scheme |-> "tdengine"]>>
  /\ connectors = <<[k |-> 1, v |-> clone(PrototypeInst, 0)]>>
  /\ sshTunnels = <<>>
  /\ sourceConfigs = {1}
  /\ sourceIds = <<1>>
  /\ lazySources = {}
  /\ pendingConnections = [i \in SourceIdSet |-> 0]
  /\ attempts = <<[src |-> 1, by |-> "eager", pc |-> "done", tunnel |-> Undefined,
                   inst |-> clone(PrototypeInst, 0), host |-> "db",
                   port |-> RemotePort, err |-> ""]>>
  /\ startup = [pc |-> "done", idx |-> 1]
  /\ calls = <<>>
  /\ connectLog = <<[inst |-> clone(PrototypeInst, 0), src |-> 1, host |-> "db",
                     port |-> RemotePort, tunnel |-> Undefined,
                     established |-> FALSE]>>
  /\ cloneCount = 1
  /\ tunnelCount = 0
  /\ tunnelsUp = {}
  /\ dpc = NoTeardown
  /\ teardown = <<>>
  /\ snapshot = [conns |-> {}, tuns |-> {}]
  /\ disconnectResult = "none"
  /\ disconnects = 0

SqlTexts == UNION {[1..n -> Lexemes] : n \in 0..MaxLen}

InitSQL ==
  /\ ManagerWithOneSource
  /\ UtilIdle
  /\ ConnectorConnected
  /\ sql \in SqlTexts
  /\ readonly \in BOOLEAN
  /\ maxRows = Undefined
  /\ \/ entry = "tool" /\ parameters = 0 /\ toolSourceId \in {Undefined, UnknownId}
     \/ entry = "direct" /\ parameters \in {0, 1} /\ toolSourceId = Undefined
  /\ hpc = "idle"
  /\ hcall = 0
  /\ response = "none"
  /\ tracked = <<>>
  /\ statements = <<>>
  /\ epc = 0
  /\ sent = <<>>
  /\ tableRows = 0
  /\ allRows = <<>>
  /\ totalRowCount = 0
  /\ execResult = "none"
  /\ answered = 0
  /\ execError = "none"

NextSQL ==
  \/ ExecuteSqlTool
  \/ ExecuteSqlToolResume
  \/ DirectExecuteSQL
  \/ \E ok \in BOOLEAN : EngineSettled(ok)

SpecSQL == InitSQL /\ [][NextSQL]_vars

\* ------------------------------------------------- utils/parameter-mapper
MaxParamLen == 4

\* Lexemes of a statement with placeholders: $N, @pN, ?, the quote characters
\* and the comment delimiters.
ParamLexemes ==
  {"$0", "$1", "$2", "$3", "@p1", "@p2", "?", "'", "''", "\"", "--", "\n",
   "/*", "*/"}

\* parseInt(m.slice(1), 10) of a match of /\$\d+/
NumberedIndex == ("$0" :> 0) @@ ("$1" :> 1) @@ ("$2" :> 2) @@ ("$3" :> 3)

\* parseInt(m.slice(2), 10) of a match of /@p\d+/
NamedIndex == ("@p1" :> 1) @@ ("@p2" :> 2)

\* cleanedSQL.match(re) for the pattern whose matches are the lexemes in pat.
Matches(cleaned, pat) == {i \in 1..Len(cleaned) : cleaned[i] \in pat}

detectParameterStyleUncleaned(statement) ==
  IF Matches(statement, DOMAIN NumberedIndex) # {} THEN "numbered"
  ELSE IF Matches(statement, DOMAIN NamedIndex) # {} THEN "named"
  ELSE IF Matches(statement, {"?"}) # {} THEN "positional"
  ELSE "none"

\* detectParameterStyle(statement)
detectParameterStyle(statement) ==
  LET cleanedSQL == stripCommentsAndStrings(statement) IN
  IF Matches(cleanedSQL, DOMAIN NumberedIndex) # {} THEN "numbered"
  ELSE IF Matches(cleanedSQL, DOMAIN NamedIndex) # {} THEN "named"
  ELSE IF Matches(cleanedSQL, {"?"}) # {} THEN "positional"
  ELSE "none"

SetMax(S) == CHOOSE x \in S : \A y \in S : y <= x

SetMin(S) == CHOOSE x \in S : \A y \in S : x <= y

\* The loop `for (let i = 1; i <= maxIndex; i++)` of countParameters: it throws
\* at the first i that uniqueIndices does not include, else maxIndex is returned.
CheckSequential(uniqueIndices) ==
  LET maxIndex == SetMax(uniqueIndices)
      missing == {i \in 1..maxIndex : i \notin uniqueIndices}
  IN IF missing # {}
     THEN [ok |-> FALSE, count |-> 0, missing |-> SetMin(missing)]
     ELSE [ok |-> TRUE, count |-> maxIndex, missing |-> 0]

\* countParameters(statement): ok with the count, or the error with the index
\* its message reports as missing.
countParameters(statement) ==
  LET style == detectParameterStyle(statement)
      cleanedSQL == stripCommentsAndStrings(statement)
      numbered == Matches(cleanedSQL, DOMAIN NumberedIndex)
      named == Matches(cleanedSQL, DOMAIN NamedIndex)
  IN CASE style = "numbered" ->
            IF numbered = {} THEN [ok |-> TRUE, count |-> 0, missing |-> 0]
            ELSE CheckSequential({NumberedIndex[cleanedSQL[i]] : i \in numbered})
       [] style = "named" ->
            IF named = {} THEN [ok |-> TRUE, count |-> 0, missing |-> 0]
            ELSE CheckSequential({NamedIndex[cleanedSQL[i]] : i \in named})
       [] style = "positional" ->
            [ok |-> TRUE, count |-> Cardinality(Matches(cleanedSQL, {"?"})),
             missing |-> 0]
       [] OTHER -> [ok |-> TRUE, count |-> 0, missing |-> 0]

\* A caller analyses a statement: detectParameterStyle and countParameters.
AnalyseParameters ==
  /\ uop = "params"
  /\ ~uout.done
  /\ uout' = [done |-> TRUE, style |-> detectParameterStyle(uin),
               count |-> countParameters(uin)]
  /\ UNCHANGED <<uop, uin>>
  /\ UNCHANGED <<mvars, svars, cvars>>

\* ---------------------------------------------------- utils/allowed-keywords
MaxKeywordLen == 4

\* Lexemes of the statements classified: keywords in both cases, keywords of
\* one dialect only, a writing keyword, comments and a string delimiter.
KeywordLexemes ==
  {"select", "SELECT", "pragma", "PRAGMA", "show", "describe", "insert",
   "/*", "*/", "--", "\n", "'"}

\* connectorType: ConnectorType | string
ConnectorTypes == Dialects \cup {"unknown"}

\* A caller classifies a statement for a connector type.
ClassifyReadOnly ==
  /\ uop = "readonly"
  /\ ~uout.done
  /\ uout' = [done |-> TRUE, res |-> isReadOnlySQL(uin.sql, uin.connectorType)]
  /\ UNCHANGED <<uop, uin>>
  /\ UNCHANGED <<mvars, svars, cvars>>

\* -------------------------------------------------- utils/identifier-quoter
MaxIdLen == 3

\* Characters of an identifier, by name: a letter, the quote characters of
\* the dialects (double quote, backtick, square brackets), the characters of the pattern /[\0\x08\x09\x1a\n\r]/ and two
\* further control characters (U+0001, U+007F).
RejectedChars == {"NUL", "BS", "TAB", "SUB", "LF", "CR"}

ControlChars == RejectedChars \cup {"SOH", "DEL"}

IdChars == {"a", "DQUOTE", "BACKTICK", "LBRACKET", "RBRACKET"} \cup ControlChars

\* The opening and the closing delimiter of the switch on dbType; an unknown
\* type falls back to double quotes.
OpenDelimiter(dbType) ==
  CASE dbType \in {"postgres", "sqlite"} -> "DQUOTE"
    [] dbType \in {"mysql", "mariadb", "tdengine"} -> "BACKTICK"
    [] dbType = "sqlserver" -> "LBRACKET"
    [] OTHER -> "DQUOTE"

CloseDelimiter(dbType) ==
  CASE dbType \in {"postgres", "sqlite"} -> "DQUOTE"
    [] dbType \in {"mysql", "mariadb", "tdengine"} -> "BACKTICK"
    [] dbType = "sqlserver" -> "RBRACKET"
    [] OTHER -> "DQUOTE"

EscapeNothing(identifier, close) == identifier

\* identifier.replace(/<close>/g, "<close><close>")
RECURSIVE Escape(_, _)
Escape(identifier, close) ==
  IF identifier = <<>> THEN <<>>
  ELSE IF Head(identifier) = close
       THEN <<close, close>> \o Escape(Tail(identifier), close)
       ELSE <<Head(identifier)>> \o Escape(Tail(identifier), close)

\* quoteIdentifier(identifier, dbType): the quoted text, or the error thrown.
quoteIdentifier(identifier, dbType) ==
  IF \E i \in 1..Len(identifier) : identifier[i] \in RejectedChars
  THEN [ok |-> FALSE, err |-> "control", text |-> <<>>]
  ELSE IF identifier = <<>>
  THEN [ok |-> FALSE, err |-> "empty", text |-> <<>>]
  ELSE [ok |-> TRUE, err |-> "",
        text |-> <<OpenDelimiter(dbType)>>
                   \o Escape(identifier, CloseDelimiter(dbType))
                   \o <<CloseDelimiter(dbType)>>]

\* quoteQualifiedIdentifier(tableName, schemaName, dbType); schemaName is
\* [given, name], given = FALSE standing for undefined.
quoteQualifiedIdentifier(tableName, schemaName, dbType) ==
  LET quotedTable == quoteIdentifier(tableName, dbType) IN
  IF ~quotedTable.ok THEN quotedTable
  ELSE IF schemaName.given /\ schemaName.name # <<>>
  THEN LET quotedSchema == quoteIdentifier(schemaName.name, dbType) IN
       IF ~quotedSchema.ok THEN quotedSchema
       ELSE [ok |-> TRUE, err |-> "",
             text |-> quotedSchema.text \o <<".">> \o quotedTable.text]
  ELSE quotedTable

QuoteIdentifier ==
  /\ uop = "quote"
  /\ ~uout.done
  /\ uout' = [done |-> TRUE, res |-> quoteIdentifier(uin.identifier, uin.dbType)]
  /\ UNCHANGED <<uop, uin>>
  /\ UNCHANGED <<mvars, svars, cvars>>

QuoteQualifiedIdentifier ==
  /\ uop = "qualified"
  /\ ~uout.done
  /\ uout' = [done |-> TRUE,
               res |-> quoteQualifiedIdentifier(uin.tableName, uin.schemaName,
                                                uin.dbType)]
  /\ UNCHANGED <<uop, uin>>
  /\ UNCHANGED <<mvars, svars, cvars>>

\* ------------------------------------------------ the utilities on their own
\* A manager as constructed, with nothing configured.
ManagerNew ==
  /\ sources = <<>>
  /\ connectors = <<>>
  /\ sshTunnels = <<>>
  /\ sourceConfigs = {}
  /\ sourceIds = <<>>
  /\ lazySources = {}
  /\ pendingConnections = [i \in SourceIdSet |-> 0]
  /\ attempts = <<>>
  /\ startup = [pc |-> "idle", idx |-> 0]
  /\ calls = <<>>
  /\ connectLog = <<>>
  /\ cloneCount = 0
  /\ tunnelCount = 0
  /\ tunnelsUp = {}
  /\ dpc = NoTeardown
  /\ teardown = <<>>
  /\ snapshot = [conns |-> {}, tuns |-> {}]
  /\ disconnectResult = "none"
  /\ disconnects = 0

ParamTexts == UNION {[1..n -> ParamLexemes] : n \in 0..MaxParamLen}

Identifiers == UNION {[1..n -> IdChars] : n \in 0..MaxIdLen}

ShortIdentifiers == UNION {[1..n -> IdChars] : n \in 0..1}

SchemaNames ==
  {[given |-> FALSE, name |-> <<>>]}
    \cup {[given |-> TRUE, name |-> n] : n \in ShortIdentifiers}

KeywordTexts == UNION {[1..n -> KeywordLexemes] : n \in 0..MaxKeywordLen}

InitUtil ==
  /\ ManagerNew
  /\ SqlIdle
  /\ ConnectorNew
  /\ uout = NoResult
  /\ \/ uop = "params" /\ uin \in ParamTexts
     \/ uop = "quote" /\ uin \in [identifier : Identifiers, dbType : Dialects]
     \/ uop = "qualified"
          /\ uin \in [tableName : ShortIdentifiers, schemaName : SchemaNames,
                       dbType : Dialects]
     \/ uop = "readonly"
          /\ uin \in [sql : KeywordTexts, connectorType : ConnectorTypes]

NextUtil ==
  \/ AnalyseParameters
  \/ QuoteIdentifier
  \/ QuoteQualifiedIdentifier
  \/ ClassifyReadOnly

SpecUtil == InitUtil /\ [][NextUtil]_vars

\* ------------------------------------------- one TDengine connector's lifetime
MaxConnTextLen == 2

ConnTexts == UNION {[1..n -> {"select", "insert", ";"}] : n \in 0..MaxConnTextLen}

InitConn ==
  /\ ManagerNew
  /\ UtilIdle
  /\ ConnectorNew
  /\ sql \in ConnTexts
  /\ readonly = FALSE
  /\ maxRows = Undefined
  /\ parameters \in {0, 1}
  /\ entry = "direct"
  /\ toolSourceId = Undefined
  /\ hpc = "idle"
  /\ hcall = 0
  /\ response = "none"
  /\ tracked = <<>>
  /\ statements = <<>>
  /\ epc = 0
  /\ sent = <<>>
  /\ tableRows = 0
  /\ allRows = <<>>
  /\ totalRowCount = 0
  /\ execResult = "none"
  /\ answered = 0
  /\ execError = "none"

NextConn ==
  \/ Connect
  \/ \E ok \in BOOLEAN : ParseSettled(ok)
  \/ \E ok \in BOOLEAN : TestQuerySettled(ok)
  \/ ConnectorDisconnect
  \/ DirectExecuteSQL
  \/ \E ok \in BOOLEAN : EngineSettled(ok)

SpecConn == InitConn /\ [][NextConn]_vars

\* ------------------------------------- the execute_sql tool on a lazy source
\* The manager after a startup with one lazy source, registered and not yet
\* connected.
ManagerWithLazySource ==
  /\ \E ssh \in {"none", "ok"}, scheme \in Schemes :
        sources = <<[id |-> 1, lazy |-> TRUE, ssh |-> ssh, scheme |-> scheme]>>
  /\ connectors = <<>>
  /\ sshTunnels = <<>>
  /\ sourceConfigs = {1}
  /\ sourceIds = <<1>>
  /\ lazySources = {1}
  /\ pendingConnections = [i \in SourceIdSet |-> 0]
  /\ attempts = <<>>
  /\ startup = [pc |-> "done", idx |-> 0]
  /\ calls = <<>>
  /\ connectLog = <<>>
  /\ cloneCount = 0
  /\ tunnelCount = 0
  /\ tunnelsUp = {}
  /\ dpc = NoTeardown
  /\ teardown = <<>>
  /\ snapshot = [conns |-> {}, tuns |-> {}]
  /\ disconnectResult = "none"
  /\ disconnects = 0

\* The handler is invoked once; the connector the manager hands out has
\* completed its connect().
InitTool ==
  /\ ManagerWithLazySource
  /\ UtilIdle
  /\ ConnectorConnected
  /\ sql \in ConnTexts
  /\ readonly \in BOOLEAN
  /\ maxRows = Undefined
  /\ parameters = 0
  /\ entry = "tool"
  /\ toolSourceId \in {Undefined, 1, UnknownId}
  /\ hpc = "idle"
  /\ hcall = 0
  /\ response = "none"
  /\ tracked = <<>>
  /\ statements = <<>>
  /\ epc = 0
  /\ sent = <<>>
  /\ tableRows = 0
  /\ allRows = <<>>
  /\ totalRowCount = 0
  /\ execResult = "none"
  /\ answered = 0
  /\ execError = "none"

NextTool ==
  \/ ExecuteSqlTool
  \/ \E a \in 1..Len(attempts), ok \in BOOLEAN : TunnelSettled(a, ok)
  \/ \E a \in 1..Len(attempts), ok \in BOOLEAN : ConnectSettled(a, ok)
  \/ \E a \in 1..Len(attempts) : ensureConnectedResume(a)
  \/ ExecuteSqlToolResume
  \/ \E ok \in BOOLEAN : EngineSettled(ok)

SpecTool == InitTool /\ [][NextTool]_vars

\* --------------------------------------------- executeSQL with a row cap
MaxStatements == 3
InitialRows == 3

\* The statements of the batches: a query, a CTE query, each with or without a
\* trailing LIMIT, and an insert; each also with a string literal that holds
\* a semicolon.
StatementShapes ==
  {<<"select">>, <<"with", "select">>, <<"insert">>,
   <<"select", "'", ";", "'">>, <<"with", "'", ";", "'", "select">>,
   <<"insert", "'", ";", "'">>}
    \cup {<<"select", l>> : l \in DOMAIN LimitOf}
    \cup {<<"with", "select", l>> : l \in DOMAIN LimitOf}

RECURSIVE JoinStatements(_)
JoinStatements(ss) ==
  IF ss = <<>> THEN <<>>
  ELSE IF Len(ss) = 1 THEN ss[1]
  ELSE ss[1] \o <<";">> \o JoinStatements(Tail(ss))

LimitTexts ==
  {JoinStatements(ss) : ss \in UNION {[1..n -> StatementShapes] : n \in 1..MaxStatements}}

\* executeSQL(sql, {maxRows}) on a connected TDengine source whose table holds
\* InitialRows rows.
InitLimit ==
  /\ ManagerWithOneSource
  /\ UtilIdle
  /\ ConnectorConnected
  /\ sql \in LimitTexts
  /\ readonly = FALSE
  /\ maxRows \in {Undefined, 1, 2}
  /\ entry = "direct"
  /\ parameters = 0
  /\ toolSourceId = Undefined
  /\ hpc = "idle"
  /\ hcall = 0
  /\ response = "none"
  /\ tracked = <<>>
  /\ statements = <<>>
  /\ epc = 0
  /\ sent = <<>>
  /\ tableRows = InitialRows
  /\ allRows = <<>>
  /\ totalRowCount = 0
  /\ execResult = "none"
  /\ answered = 0
  /\ execError = "none"

NextLimit ==
  \/ DirectExecuteSQL
  \/ \E ok \in BOOLEAN : EngineSettled(ok)

SpecLimit == InitLimit /\ [][NextLimit]_vars

\* ================================================================== claims
AttemptIds == 1..Len(attempts)

InFlight(id) ==
  {a \in AttemptIds : attempts[a].by = "lazy" /\ attempts[a].src = id
                      /\ attempts[a].pc # "done"}

Finished(id) ==
  {a \in AttemptIds : attempts[a].by = "lazy" /\ attempts[a].src = id
                      /\ attempts[a].pc = "done"}

ConnectCalls(id) == {i \in 1..Len(connectLog) : connectLog[i].src = id}

IsLazy(id) == \E i \in 1..Len(sources) : sources[i].id = id /\ sources[i].lazy

InBoth(id) == MapHas(connectors, id) /\ id \in lazySources

\* C1: for a lazy source id at most one connection attempt is in flight at any
\* time, however many ensureConnected calls interleave: every connect() (and
\* clone()) invocation for the id belongs to a finished attempt or to the one
\* attempt in flight, and every caller still waiting waits on an attempt that
\* is in flight for its id, so all waiting callers of an id share one attempt.
C1_SingleAttempt ==
  /\ \A id \in SourceIdSet :
       IsLazy(id) =>
         /\ Cardinality(InFlight(id)) <= 1
         /\ Cardinality(ConnectCalls(id)) <=
              Cardinality(Finished(id)) + Cardinality(InFlight(id))
  /\ \A i \in 1..Len(calls) :
       calls[i].result = "pending" => calls[i].attempt \in InFlight(calls[i].id)

C1_Witness ==
  \E i, j \in 1..Len(calls) :
    /\ i # j
    /\ calls[i].result = "pending" /\ calls[j].result = "pending"
    /\ calls[i].id = calls[j].id
    /\ calls[i].attempt = calls[j].attempt
    /\ attempts[calls[i].attempt].pc = "connect"
    /\ Cardinality(ConnectCalls(calls[i].id)) = 1

\* C2 (as stated): no source id is in the connected map and in the
\* pending-lazy map at the same time.
C2_NeverBoth == \A id \in SourceIdSet : ~InBoth(id)

\* C2 (amended): a source id is in both maps only while its in-flight record
\* is still present and the attempt's connectSource has returned, that is,
\* between connectors.set in connectSource and lazySources.delete in the
\* resumed ensureConnected; with no in-flight record an id is in at most one
\* of the two maps.
C2_BothOnlyInTransition ==
  \A id \in SourceIdSet :
    InBoth(id) =>
      /\ pendingConnections[id] # 0
      /\ attempts[pendingConnections[id]].src = id
      /\ attempts[pendingConnections[id]].pc = "returned"

C2_Witness ==
  \E a \in AttemptIds :
    /\ attempts[a].by = "lazy" /\ attempts[a].pc = "done" /\ attempts[a].err = ""
    /\ MapHas(connectors, attempts[a].src)
    /\ attempts[a].src \notin lazySources

\* C3: when a lazy connection attempt fails, the step that settles it rejects
\* every caller waiting on it, removes the in-flight record, leaves the id in
\* the pending-lazy map and out of the connected map, and starts no new
\* attempt (no clone, no connect, no tunnel).
C3_FailureStep ==
  [][\A a \in AttemptIds :
       (attempts[a].by = "lazy" /\ attempts[a].pc = "threw"
          /\ attempts'[a].pc = "done") =>
         /\ pendingConnections'[attempts[a].src] = 0
         /\ lazySources' = lazySources
         /\ ~MapHas(connectors', attempts[a].src)
         /\ Len(attempts') = Len(attempts)
         /\ connectLog' = connectLog
         /\ cloneCount' = cloneCount
         /\ tunnelCount' = tunnelCount
         /\ \A i \in 1..Len(calls) :
              (calls[i].attempt = a /\ calls[i].result = "pending") =>
                calls'[i].result = "failed"]_vars

\* A failed attempt with two callers rejected, then a fresh attempt for the
\* same id that succeeded.
C3_Witness ==
  \E a, b \in AttemptIds :
    /\ a < b
    /\ attempts[a].by = "lazy" /\ attempts[b].by = "lazy"
    /\ attempts[a].src = attempts[b].src
    /\ attempts[a].pc = "done" /\ attempts[a].err # ""
    /\ attempts[b].pc = "done" /\ attempts[b].err = ""
    /\ MapHas(connectors, attempts[a].src)
    /\ \E i, j \in 1..Len(calls) :
         /\ i # j
         /\ calls[i].attempt = a /\ calls[i].result = "failed"
         /\ calls[j].attempt = a /\ calls[j].result = "failed"
    /\ \E k \in 1..Len(calls) : calls[k].attempt = b /\ calls[k].result = "ok"

EagerIds(n) == {eagerSources[i].id : i \in 1..n}

\* C6 (as stated): after connectWithSources failed on an eager source the
\* manager holds no initialised source at all (no connector, no tunnel) and no
\* lazy source is registered.
C6_NothingLeftAfterFailure ==
  (startup.pc = "failed" /\ Len(sources) > 0) =>
     /\ connectors = <<>>
     /\ sshTunnels = <<>>
     /\ lazySources = {}

\* C6 (amended): once the connect of eager source number k has failed,
\* connectWithSources has failed; no
\* eager source after k was cloned, tunnelled or connected, no lazy source is
\* registered (so no lazy attempt ever starts), and, until disconnect() clears
\* the maps, the connected map holds exactly the eager sources before k:
\* nothing is rolled back.
EagerAttemptFailed ==
  \E a \in AttemptIds :
    attempts[a].by = "eager" /\ attempts[a].pc = "done" /\ attempts[a].err # ""

C6_FailFastNoRollback ==
  (EagerAttemptFailed \/ (startup.pc = "failed" /\ Len(sources) > 0)) =>
     LET k == startup.idx IN
     /\ startup.pc = "failed"
     /\ attempts[k].err # ""
     /\ lazySources = {}
     /\ Len(attempts) = k
     /\ \A a \in AttemptIds :
          attempts[a].by = "eager" /\ attempts[a].src = eagerSources[a].id
     /\ \A i \in 1..Len(connectLog) : connectLog[i].src \in EagerIds(k)
     /\ MapKeys(sshTunnels) \subseteq EagerIds(k)
     /\ MapKeys(connectors) \subseteq EagerIds(k - 1)
     /\ disconnectResult # "ok" => MapKeys(connectors) = EagerIds(k - 1)
     /\ \A i \in 1..Len(calls) : calls[i].result \in {"ok", "notfound", "nosources"}

\* The first of two configured sources is eager and its connect() failed.
C6_Witness ==
  /\ startup.pc = "failed"
  /\ Len(sources) = 2
  /\ startup.idx = 1
  /\ attempts[1].err = "connect"
  /\ Len(calls) > 0

\* C7: a disconnect() call never fails, and when it has returned it has made
\* exactly one disconnect() call for every entry the connected map held and
\* exactly one close() call for every entry the tunnel map held when it was
\* called, whichever of these teardown calls failed.
TeardownOf(kind, key) ==
  {i \in 1..Len(teardown) : teardown[i].kind = kind /\ teardown[i].key = key}

C7_BestEffortTeardown ==
  /\ disconnectResult \in {"none", "running", "ok"}
  /\ \A i, j \in 1..Len(teardown) :
       (teardown[i].kind = teardown[j].kind /\ teardown[i].key = teardown[j].key)
         => i = j
  /\ disconnectResult = "ok" =>
       /\ \A id \in snapshot.conns : Cardinality(TeardownOf("conn", id)) = 1
       /\ \A id \in snapshot.tuns : Cardinality(TeardownOf("tun", id)) = 1
       /\ dpc.phase = "idle"
  /\ disconnectResult = "running" => dpc.phase \in {"conn", "tun"}

\* disconnect() returned although the first teardown call failed, and it still
\* tore down a further connector and a tunnel.
C7_Witness ==
  /\ disconnectResult = "ok"
  /\ Len(teardown) >= 3
  /\ ~teardown[1].ok
  /\ \E i \in 1..Len(teardown) : teardown[i].kind = "tun" /\ ~teardown[i].ok
  /\ Cardinality(snapshot.conns) = 2

\* C8: connector.connect() of a source with an SSH host is invoked only once
\* its tunnel is established, and with host 127.0.0.1 and the tunnel's local
\* port; a source without SSH host connects to its own host and port; and an
\* attempt whose SSH config lacks ssh_user or both ssh_password and ssh_key
\* has thrown without creating a tunnel or a connector.
C8_TunnelBeforeConnect ==
  /\ \A i \in 1..Len(connectLog) :
       LET e == connectLog[i] IN
       IF SourceOf(e.src).ssh = "none"
       THEN e.tunnel = Undefined /\ e.host = "db" /\ e.port = RemotePort
       ELSE /\ SourceOf(e.src).ssh = "ok"
            /\ e.tunnel # Undefined
            /\ e.established
            /\ e.host = "127.0.0.1"
            /\ e.port = localPort(e.tunnel)
  /\ \A a \in AttemptIds :
       SourceOf(attempts[a].src).ssh \in {"nouser", "noauth"} =>
         /\ attempts[a].pc \in {"threw", "done"}
         /\ attempts[a].err = (IF SourceOf(attempts[a].src).ssh = "nouser"
                               THEN "ssh_user" ELSE "ssh_auth")
         /\ attempts[a].tunnel = Undefined
         /\ attempts[a].inst = Undefined
  /\ \A a \in AttemptIds :
       (SourceOf(attempts[a].src).ssh = "ok" /\ attempts[a].pc = "establish")
         => attempts[a].inst = Undefined

C8_Witness ==
  /\ \E i \in 1..Len(connectLog) :
       connectLog[i].host = "127.0.0.1" /\ connectLog[i].established
  /\ \E a \in AttemptIds : attempts[a].err = "ssh_user"

\* C9: no two source ids of the connected map hold the same Connector
\* instance, the registry's prototype is never connected nor stored, and no
\* instance has connect() invoked twice: each attempt uses a fresh clone.
C9_FreshInstancePerSource ==
  /\ \A i, j \in 1..Len(connectors) :
       connectors[i].v = connectors[j].v => i = j
  /\ PrototypeInst \notin MapValues(connectors)
  /\ \A i \in 1..Len(connectLog) : connectLog[i].inst # PrototypeInst
  /\ \A i, j \in 1..Len(connectLog) :
       connectLog[i].inst = connectLog[j].inst => i = j

\* Two sources of the same dialect are connected, one eagerly, one lazily.
C9_Witness ==
  /\ Len(connectors) = 2
  /\ \E a, b \in AttemptIds :
       /\ attempts[a].by = "eager" /\ attempts[b].by = "lazy"
       /\ attempts[a].pc = "done" /\ attempts[b].pc = "done"
       /\ attempts[a].err = "" /\ attempts[b].err = ""

\* ---------------------------------------- claims on the SQL path (SpecSQL)
\* Every statement of the batch, the statements being delimited by the
\* semicolons outside strings and comments, is read-only for the dialect.
AllTopLevelReadOnly(s, connectorType) ==
  LET stmts == TopLevelStatements(s) IN
  \A i \in 1..Len(stmts) : isReadOnlySQL(stmts[i], connectorType)

ToolGotConnector ==
  /\ entry = "tool"
  /\ hpc \in {"exec", "done"}
  /\ calls[hcall].result = "ok"

\* C4: with readonly enabled, once the execute_sql handler holds its connector,
\* a batch with a statement that is not read-only never reaches executeSQL: no
\* statement is sent to the engine and the response is READONLY_VIOLATION.
C4_ReadonlyGate ==
  (ToolGotConnector /\ readonly /\ ~AllTopLevelReadOnly(sql, "tdengine")) =>
     /\ execResult = "none"
     /\ sent = <<>>
     /\ response = "READONLY_VIOLATION"

\* C5: executeSQL called with options.readonly = true on a batch with a
\* statement that is not read-only sends no statement to the engine and fails.
C5_ConnectorChecksReadonly ==
  (entry = "direct" /\ hpc # "idle" /\ readonly /\ parameters = 0
     /\ ~AllTopLevelReadOnly(sql, "tdengine")) =>
     /\ sent = <<>>
     /\ execResult = "threw"

\* The lexemes of the statements, one statement after the other.
RECURSIVE Concat(_)
Concat(ss) == IF ss = <<>> THEN <<>> ELSE Head(ss) \o Concat(Tail(ss))

\* The text without its semicolons and line ends.
RECURSIVE WithoutSemicolons(_)
WithoutSemicolons(s) ==
  IF s = <<>> THEN <<>>
  ELSE IF Head(s) \in {";", "\n"} THEN WithoutSemicolons(Tail(s))
  ELSE <<Head(s)>> \o WithoutSemicolons(Tail(s))

IsPrefix(p, s) == Len(p) <= Len(s) /\ \A i \in 1..Len(p) : p[i] = s[i]

\* The number of rows the engine holds after the lexemes of s ran in order:
\* one per statement whose first word is insert.
InsertsIn(stmts, n) ==
  Cardinality({i \in 1..n :
     LET w == stripCommentsAndStrings(stmts[i]) IN w # <<>> /\ w[1] = "insert"})

\* C10: the statements the engine received are, in order, a prefix of the
\* batch as written; a statement is sent only when every earlier one has been
\* answered; and the row a query returns counts every insert that precedes it
\* in the same call.
C10_SourceOrder ==
  /\ IsPrefix(WithoutSemicolons(Concat(sent)), WithoutSemicolons(sql))
  /\ Len(sent) <= answered + 1
  /\ execResult = "ok" => WithoutSemicolons(Concat(sent)) = WithoutSemicolons(sql)
  /\ \A i \in 1..Len(allRows) :
       allRows[i].total = InsertsIn(sent, allRows[i].stmt - 1)

\* INSERT; INSERT; SELECT COUNT(*) in one call: the query sees both rows.
C10_Witness ==
  /\ sql = <<"insert", ";", "insert", ";", "select">>
  /\ execResult = "ok"
  /\ allRows = <<[stmt |-> 3, total |-> 2, rows |-> 2]>>

\* ------------------------------------------------------------------- C11
\* Everything the manager holds besides the log of ensureConnected calls.
ManagerState ==
  <<connectors, sshTunnels, sourceConfigs, sourceIds, lazySources,
    pendingConnections, attempts, connectLog, cloneCount, tunnelCount,
    tunnelsUp>>

\* C11: an ensureConnected call for a connected id returns at once, starts no
\* attempt and changes nothing in the manager; a call for an id that is neither
\* connected nor lazy fails with an error listing the available source ids,
\* starts no attempt and changes nothing in the manager.
C11_NoOpOrNotFound ==
  [][Len(calls') = Len(calls) + 1 =>
       LET c == calls'[Len(calls')] IN
       /\ MapHas(connectors, c.id) =>
            /\ c.result = "ok"
            /\ c.attempt = 0
            /\ UNCHANGED ManagerState
       /\ (~MapHas(connectors, c.id) /\ c.id \notin lazySources) =>
            /\ c.result \in {"notfound", "nosources"}
            /\ c.attempt = 0
            /\ c.named = sourceIds
            /\ UNCHANGED ManagerState]_vars

\* One call found its source connected, another named an unknown id while
\* sources were available.
C11_Witness ==
  \E i, j \in 1..Len(calls) :
    /\ calls[i].result = "ok" /\ calls[i].attempt = 0
    /\ calls[j].result = "notfound" /\ calls[j].arg = UnknownId
    /\ calls[j].named # <<>>

\* ------------------------------------------------------------- C12, C13
\* The statement with the contents of every string, quoted identifier and
\* comment removed; the delimiters stay.  mode is "" outside, else the lexeme
\* that closes what is open; '' inside a string is an escaped quote.
RECURSIVE ContentsRemoved(_, _)
ContentsRemoved(s, mode) ==
  IF s = <<>> THEN <<>>
  ELSE LET h == Head(s) IN
       IF mode # ""
       THEN IF h = mode THEN <<h>> \o ContentsRemoved(Tail(s), "")
            ELSE ContentsRemoved(Tail(s), mode)
       ELSE <<h>> \o ContentsRemoved(Tail(s),
                       CASE h = "/*" -> "*/"
                         [] h = "'" -> "'"
                         [] h = "\"" -> "\""
                         [] h = "--" -> "\n"
                         [] OTHER -> "")

\* C12: the detected style and the parameter count of a statement are those of
\* the statement with the contents of its literals and comments removed, so a
\* placeholder inside a literal or a comment is neither detected nor counted.
C12_LiteralsAndCommentsIgnored ==
  (uop = "params" /\ uout.done) =>
     /\ uout.style = detectParameterStyle(ContentsRemoved(uin, ""))
     /\ uout.count = countParameters(ContentsRemoved(uin, ""))
     /\ uout.style = detectParameterStyleUncleaned(
                        SelectSeq(ContentsRemoved(uin, ""),
                                  LAMBDA x : x \notin {"'", "''", "\"", "--", "\n", "/*", "*/"}))

\* SELECT 'it''s $1': the placeholder is inside the string, past an escaped
\* quote; no style is detected and nothing is counted.
C12_Witness ==
  /\ uop = "params"
  /\ uin = <<"'", "''", "$1", "'">>
  /\ uout.done
  /\ uout.style = "none"
  /\ uout.count = [ok |-> TRUE, count |-> 0, missing |-> 0]

\* The indices referenced by the placeholders of the given kind that stand
\* outside every literal and comment.
ReferencedIndices(s, index) ==
  LET r == ContentsRemoved(s, "") IN
  {index[r[i]] : i \in {k \in 1..Len(r) : r[k] \in DOMAIN index}}

IndicesOf(s) ==
  IF ReferencedIndices(s, NumberedIndex) # {}
  THEN ReferencedIndices(s, NumberedIndex)
  ELSE ReferencedIndices(s, NamedIndex)

\* C13: for a statement with numbered or named placeholders countParameters
\* succeeds exactly when the referenced indices are 1..max, and then returns
\* max, the number of distinct indices; otherwise it fails naming the smallest
\* index of 1..max that is not referenced.
C13_SequentialFromOne ==
  (uop = "params" /\ uout.done /\ uout.style \in {"numbered", "named"}) =>
     LET idx == IndicesOf(uin)
         max == SetMax(idx)
     IN IF idx = 1..max
        THEN /\ uout.count.ok
             /\ uout.count.count = max
             /\ uout.count.count = Cardinality(idx)
        ELSE /\ ~uout.count.ok
             /\ uout.count.missing = SetMin((1..max) \ idx)

\* ---------------------------------------------------------- C14, C15, C16
IsQuery(stmt) == isReadOnlySQL(stmt, "tdengine")

WithoutLimit(stmt) ==
  IF HasLimit(stmt) THEN SubSeq(stmt, 1, Len(stmt) - 1) ELSE stmt

BeginsWithWith(stmt) == stmt # <<>> /\ stmt[1] = "with"

\* The limit required for a statement under a row cap of m.
EffectiveLimit(stmt, m) ==
  IF HasLimit(stmt) THEN Min(LimitOf[stmt[Len(stmt)]], m) ELSE m

\* C14: with maxRows = m, every query that is not a CTE is sent with the limit
\* min(n, m) if it ends with LIMIT n and with the limit m if it has none, is
\* otherwise unchanged, and returns at most that many rows.
C14_EffectiveLimit ==
  maxRows # Undefined =>
    /\ \A k \in 1..Len(sent) :
         (IsQuery(statements[k]) /\ ~BeginsWithWith(statements[k])) =>
            /\ HasLimit(sent[k])
            /\ LimitOf[sent[k][Len(sent[k])]] = EffectiveLimit(statements[k], maxRows)
            /\ WithoutLimit(sent[k]) = WithoutLimit(statements[k])
    /\ \A i \in 1..Len(allRows) :
         ~BeginsWithWith(statements[allRows[i].stmt]) =>
            /\ allRows[i].rows <= EffectiveLimit(statements[allRows[i].stmt], maxRows)
            /\ allRows[i].rows =
                 Min(EffectiveLimit(statements[allRows[i].stmt], maxRows),
                     allRows[i].total)

\* SELECT ... LIMIT 3 with maxRows = 2 returns two of the three rows, and
\* SELECT ... LIMIT 1 with maxRows = 2 returns one.
C14_Witness ==
  /\ maxRows = 2
  /\ sql = <<"select", "limit 3", ";", "select", "limit 1">>
  /\ execResult = "ok"
  /\ sent = <<<<"select", "limit 2">>, <<"select", "limit 1">>>>
  /\ allRows = <<[stmt |-> 1, total |-> 3, rows |-> 2],
                 [stmt |-> 2, total |-> 3, rows |-> 1]>>

RECURSIVE SumRows(_)
SumRows(rs) == IF rs = <<>> THEN 0 ELSE Head(rs).rows + SumRows(Tail(rs))

\* C15: the k-th request to the engine is the k-th statement of the batch; a
\* statement that is not a query is sent exactly as written whatever maxRows
\* is and adds no entry to the returned rows, only its affected-row count to
\* rowCount; only queries are ever rewritten.
C15_NonQueryUntouched ==
  LET T == TopLevelStatements(sql) IN
  /\ \A k \in 1..Len(sent) :
       /\ k <= Len(T)
       /\ ~IsQuery(T[k]) => sent[k] = T[k]
       /\ sent[k] # T[k] => IsQuery(T[k])
  /\ \A i \in 1..Len(allRows) :
       allRows[i].stmt <= Len(T) /\ IsQuery(T[allRows[i].stmt])
  /\ execResult = "ok" =>
       totalRowCount = SumRows(allRows) + InsertsIn(T, Len(T))

\* C16: a statement of the batch that begins with WITH is sent exactly as
\* written for every maxRows and, without a LIMIT of its own, returns every
\* row; and without maxRows every statement is sent exactly as written.
C16_CteAndNoCapUnchanged ==
  LET T == TopLevelStatements(sql) IN
  /\ \A k \in 1..Len(sent) :
       /\ k <= Len(T)
       /\ (BeginsWithWith(T[k]) \/ maxRows = Undefined) => sent[k] = T[k]
  /\ \A i \in 1..Len(allRows) :
       /\ allRows[i].stmt <= Len(T)
       /\ LET stmt == T[allRows[i].stmt] IN
          ((BeginsWithWith(stmt) \/ maxRows = Undefined) /\ ~HasLimit(stmt)) =>
             allRows[i].rows = allRows[i].total

\* ------------------------------------------------------------- C17, C18
\* Reading a quoted text back by the dialect's convention: the outer
\* delimiters are dropped and each doubled closing delimiter stands for one;
\* a single closing delimiter inside ends the identifier early (<<"?">> marks
\* such a text, which no identifier equals).
RECURSIVE Unescape(_, _)
Unescape(body, close) ==
  IF body = <<>> THEN <<>>
  ELSE IF Head(body) # close THEN <<Head(body)>> \o Unescape(Tail(body), close)
  ELSE IF Len(body) >= 2 /\ body[2] = close
       THEN <<close>> \o Unescape(Tail(Tail(body)), close)
  ELSE <<"?">>

Unquote(text, dbType) ==
  IF Len(text) < 2 \/ text[1] # OpenDelimiter(dbType)
       \/ text[Len(text)] # CloseDelimiter(dbType)
  THEN <<"?">>
  ELSE Unescape(SubSeq(text, 2, Len(text) - 1), CloseDelimiter(dbType))

ControlFree(identifier) ==
  \A i \in 1..Len(identifier) : identifier[i] \notin ControlChars

\* C17: for every dialect, a non-empty identifier without control characters
\* is quoted, and reading the quoted text back by the dialect's convention
\* gives the identifier again.
C17_QuoteRoundTrip ==
  (uop = "quote" /\ uout.done /\ uin.identifier # <<>>
     /\ ControlFree(uin.identifier)) =>
     /\ uout.res.ok
     /\ Unquote(uout.res.text, uin.dbType) = uin.identifier

\* ]a] quoted for SQL Server is [ ]] a ]] ].
C17_Witness ==
  /\ uop = "quote"
  /\ uout.done
  /\ uin = [identifier |-> <<"RBRACKET", "a", "RBRACKET">>, dbType |-> "sqlserver"]
  /\ uout.res.text = <<"LBRACKET", "RBRACKET", "RBRACKET", "a", "RBRACKET", "RBRACKET",
                      "RBRACKET">>

MustReject(identifier) == identifier = <<>> \/ ~ControlFree(identifier)

\* C18: quoteIdentifier fails, producing no text, on every identifier that is
\* empty or holds a control character, in every dialect; and
\* quoteQualifiedIdentifier fails when its table or its given schema is such.
C18_RejectsControlAndEmpty ==
  /\ (uop = "quote" /\ uout.done /\ MustReject(uin.identifier)) =>
        ~uout.res.ok /\ uout.res.text = <<>>
  /\ (uop = "qualified" /\ uout.done
        /\ (MustReject(uin.tableName)
              \/ (uin.schemaName.given /\ MustReject(uin.schemaName.name)))) =>
        ~uout.res.ok /\ uout.res.text = <<>>

\* ------------------------------------------------------------------- C19
\* C19: an executeSQL call with a non-empty parameter list fails, and no
\* statement of it is ever sent to the engine.
C19_ParametersRejected ==
  (entry = "direct" /\ parameters > 0) =>
     /\ sent = <<>>
     /\ hpc # "idle" => (execResult = "threw" /\ hpc = "done")

\* A query with one parameter was rejected.
C19_Witness ==
  /\ entry = "direct"
  /\ parameters = 1
  /\ sql = <<"select">>
  /\ execResult = "threw"
  /\ sent = <<>>

\* ------------------------------------------------------------------- C20
\* The first word of s that stands outside every comment and string, in lower
\* case; "" when there is none.  mode is where the scan stands: in the
\* statement, in a block comment, in a line comment or in a string.
RECURSIVE FirstToken(_, _)
FirstToken(s, mode) ==
  IF s = <<>> THEN ""
  ELSE LET c == Head(s)
           next ==
             CASE mode = "block" -> IF c = "*/" THEN "statement" ELSE "block"
               [] mode = "line" -> IF c = "\n" THEN "statement" ELSE "line"
               [] mode = "string" -> IF c = "'" THEN "statement" ELSE "string"
               [] OTHER ->
                    CASE c = "/*" -> "block"
                      [] c = "--" -> "line"
                      [] c = "'" -> "string"
                      [] OTHER -> "statement"
       IN IF mode = "statement" /\ c \notin {"/*", "--", "'", "\n"}
          THEN (IF c = "SELECT" THEN "select"
                ELSE IF c = "PRAGMA" THEN "pragma" ELSE c)
          ELSE FirstToken(Tail(s), next)

\* The dialects whose allow-list holds the word.
ListedBy(word) ==
  {d \in Dialects : word \in allowedKeywords[d]}

\* The statement begins with a closed comment: the rest after that comment.
AfterLeadingComment(s) ==
  IF s # <<>> /\ Head(s) = "/*" /\ \E i \in 2..Len(s) : s[i] = "*/"
  THEN SkipPast(Tail(s), "*/")
  ELSE IF s # <<>> /\ Head(s) = "--" /\ \E i \in 2..Len(s) : s[i] = "\n"
  THEN SkipPast(Tail(s), "\n")
  ELSE s

\* C20: a statement is read-only exactly when nothing is left of it outside
\* comments and strings or when its first word, in lower case, is listed for
\* the dialect; pragma is listed for SQLite only, show and describe for MySQL,
\* MariaDB and TDengine and not for SQLite; a leading comment and the keywords
\* in it do not change the result.
C20_ReadOnlyByFirstToken ==
  (uop = "readonly" /\ uout.done) =>
     LET token == FirstToken(uin.sql, "statement")
         d == uin.connectorType
     IN /\ uout.res = (token = "" \/ d \in ListedBy(token))
        /\ token = "pragma" => (uout.res = (d = "sqlite"))
        /\ (token \in {"show", "describe"}
              /\ d \in {"mysql", "mariadb", "tdengine"}) => uout.res
        /\ (token \in {"show", "describe"} /\ d = "sqlite") => ~uout.res
        /\ uout.res = (FirstToken(AfterLeadingComment(uin.sql), "statement") = ""
                         \/ d \in ListedBy(FirstToken(AfterLeadingComment(uin.sql),
                                                      "statement")))

\* PRAGMA in capitals after a comment holding select was classified as not
\* read-only for MySQL.
C20_Witness ==
  /\ uop = "readonly"
  /\ uout.done
  /\ uin.sql = <<"/*", "select", "*/", "PRAGMA">>
  /\ uin.connectorType = "mysql"
  /\ ~uout.res

\* ------------------------------------------------------------------- C21
\* The statements the handler's read-only check runs over.
CheckedStatements == splitSQLStatements(sql)

\* C21: the statement list of a running executeSQL, and the list the handler's
\* read-only check ran over, is the split of the text at the semicolons that
\* stand outside strings and comments.
C21_TopLevelSplit ==
  /\ hpc = "exec" => statements = TopLevelStatements(sql)
  /\ (entry = "tool" /\ hpc \in {"exec", "done"} /\ hcall # 0
        /\ calls[hcall].result = "ok" /\ readonly)
       => CheckedStatements = TopLevelStatements(sql)

\* ------------------------------------------------------------------- C22
\* C22: every id with a record in pendingConnections is in lazySources, and
\* the attempt the record stands for has not completed.
C22_InFlightIsLazy ==
  \A id \in SourceIdSet :
     pendingConnections[id] # 0 =>
        /\ id \in lazySources
        /\ pendingConnections[id] \in 1..Len(attempts)
        /\ attempts[pendingConnections[id]].src = id
        /\ attempts[pendingConnections[id]].pc # "done"

\* One lazy attempt has completed and its record is gone while another id
\* still has its record.
C22_Witness ==
  \E a, b \in 1..Len(attempts) :
     /\ attempts[a].by = "lazy"
     /\ attempts[a].pc = "done"
     /\ pendingConnections[attempts[a].src] = 0
     /\ attempts[b].src # attempts[a].src
     /\ pendingConnections[attempts[b].src] = b
     /\ attempts[b].pc = "connect"

\* ------------------------------------------------------------------- C23
\* The configured sources that are not lazy, in configuration order.
ConfiguredEager == SelectSeq(sources, LAMBDA s : ~s.lazy)

\* The attempts made by connectWithSources, in the order they started.
StartupAttempts == {a \in 1..Len(attempts) : attempts[a].by = "eager"}

\* C23: the k-th attempt of connectWithSources is for the k-th eager source of
\* the configuration and starts only after every earlier one has succeeded; no
\* lazy source is cloned or connected by connectWithSources: until startup has
\* ended no lazy source is registered, and every clone and connect for a lazy
\* source belongs to an attempt started by an ensureConnected call.
C23_SequentialStartup ==
  /\ \A a \in StartupAttempts :
        LET k == Cardinality({b \in StartupAttempts : b <= a}) IN
        /\ k <= Len(ConfiguredEager)
        /\ attempts[a].src = ConfiguredEager[k].id
  /\ \A a, b \in StartupAttempts :
        a < b => (attempts[a].pc = "done" /\ attempts[a].err = "")
  /\ startup.pc # "done" =>
        (lazySources = {} /\ \A a \in 1..Len(attempts) : attempts[a].by = "eager")
  /\ \A i \in 1..Len(connectLog) :
        SourceOf(connectLog[i].src).lazy =>
           \E c \in 1..Len(calls) :
              /\ calls[c].attempt \in 1..Len(attempts)
              /\ attempts[calls[c].attempt].by = "lazy"
              /\ attempts[calls[c].attempt].inst = connectLog[i].inst
              /\ calls[c].id = connectLog[i].src

\* Two eager sources were connected, the second after the first.
C23_Witness ==
  /\ startup.pc = "done"
  /\ Len(ConfiguredEager) = 2
  /\ Len(connectLog) = 2
  /\ connectLog[1].src = ConfiguredEager[1].id
  /\ connectLog[2].src = ConfiguredEager[2].id
  /\ \A a \in 1..Len(attempts) : attempts[a].pc = "done"
  /\ MapKeys(connectors) = {1, 2}

\* ------------------------------------------------------------------- C24
\* getSourceIds(): a copy of sourceIds.
getSourceIds == sourceIds

\* getAllSourceConfigs(): the stored config of every listed id, Undefined for
\* an id without one.
getAllSourceConfigs ==
  [i \in 1..Len(sourceIds) |->
     IF sourceIds[i] \in sourceConfigs THEN sourceIds[i] ELSE Undefined]

\* C24: once connectWithSources has succeeded, and until disconnect is
\* called, the ids and the configs are listed in configuration order and the
\* default source is the first source of the configuration.
C24_ConfigurationOrder ==
  (startup.pc = "done" /\ disconnectResult = "none") =>
     /\ getSourceIds = SeqIds(sources)
     /\ getAllSourceConfigs = SeqIds(sources)
     /\ DefaultedId(Undefined) = sources[1].id

\* ------------------------------------------------------------------- C25
\* A connection attempt for the id has started and has not completed.
AttemptInFlight(id) ==
  \E a \in 1..Len(attempts) : attempts[a].src = id /\ attempts[a].pc # "done"

\* C25: until disconnect is called, every id with a tunnel in sshTunnels has a
\* connector or an attempt in flight, and every tunnel that is established and
\* not closed is the one recorded for its id.
C25_TunnelsHaveOwner ==
  disconnectResult = "none" =>
     /\ \A id \in MapKeys(sshTunnels) :
           MapHas(connectors, id) \/ AttemptInFlight(id)
     /\ tunnelsUp \subseteq MapValues(sshTunnels)

\* ------------------------------------------------------------------- C26
\* C26: once disconnect() has returned, the connected map, the tunnel map,
\* the pending-lazy map, the in-flight map and the source-id list are empty.
C26_EmptyAfterDisconnect ==
  disconnectResult = "ok" =>
     /\ connectors = <<>>
     /\ sshTunnels = <<>>
     /\ lazySources = {}
     /\ \A id \in SourceIdSet : pendingConnections[id] = 0
     /\ sourceIds = <<>>

\* ------------------------------------------------------------------- C27
\* C27: sourceIds lists no id twice, lists exactly the ids that are connected
\* or registered as lazy, and every listed id has a stored config.
C27_SourceIdsConsistent ==
  /\ \A i, j \in 1..Len(sourceIds) : sourceIds[i] = sourceIds[j] => i = j
  /\ {sourceIds[i] : i \in 1..Len(sourceIds)} = MapKeys(connectors) \cup lazySources
  /\ \A i \in 1..Len(getAllSourceConfigs) : getAllSourceConfigs[i] # Undefined

\* A lazy source registered at startup was connected later, beside an eager
\* one.
C27_Witness ==
  /\ Len(sourceIds) = 2
  /\ MapKeys(connectors) = {1, 2}
  /\ lazySources = {}
  /\ \E a \in 1..Len(attempts) : attempts[a].by = "lazy" /\ attempts[a].pc = "done"
  /\ \E a \in 1..Len(attempts) : attempts[a].by = "eager" /\ attempts[a].pc = "done"

\* ------------------------------------------------------------------- C28
\* C28: when every establish and connect settles, every ensureConnected call
\* that waits for an attempt is settled in the end, and every record in
\* pendingConnections is removed in the end.
C28_EveryCallSettles ==
  /\ \A c \in 1..MaxCalls :
        (Len(calls) >= c /\ calls[c].result = "pending")
           ~> (Len(calls) >= c /\ calls[c].result # "pending")
  /\ \A id \in SourceIdSet :
        (pendingConnections[id] # 0) ~> (pendingConnections[id] = 0)

\* Two callers waited for one attempt that failed, and both were rejected.
C28_Witness ==
  \E c, d \in 1..Len(calls) :
     /\ c # d
     /\ calls[c].attempt # 0
     /\ calls[c].attempt = calls[d].attempt
     /\ calls[c].result = "failed"
     /\ calls[d].result = "failed"
     /\ pendingConnections[calls[c].id] = 0

\* ------------------------------------------------------------------- C29
\* C29: an executeSQL call made while no connect() is running and the
\* connector's last connect() or disconnect() is not a successful connect()
\* fails with "Not connected to database" and sends nothing to the engine.
C29_NotConnectedOutsideLifetime ==
  [][(entry = "direct" /\ hpc = "idle" /\ hpc' # "idle"
        /\ cpc = "idle" /\ lifecycle # "connected")
       => (/\ execResult' = "threw"
           /\ execError' = "Not connected to database"
           /\ sent' = sent)]_vars

\* ------------------------------------------------------------------- C30
\* C30: the handler obtains the connector and sends statements only after its
\* ensureConnected call has settled, and sends them only if it resolved; when
\* the connection attempt failed the response is EXECUTION_ERROR and nothing
\* was sent; a finished invocation has tracked exactly one request, an
\* unfinished one none, and the tracked success flag is true exactly for the
\* success response.
C30_EnsureThenTrackOnce ==
  entry = "tool" =>
     /\ hpc \in {"exec", "done"} => (hcall # 0 /\ calls[hcall].result # "pending")
     /\ sent # <<>> => (hcall # 0 /\ calls[hcall].result = "ok")
     /\ (hpc = "done" /\ calls[hcall].result = "failed")
           => (response = "EXECUTION_ERROR" /\ sent = <<>>)
     /\ hpc # "done" => tracked = <<>>
     /\ hpc = "done" =>
           /\ response \in {"success", "READONLY_VIOLATION", "EXECUTION_ERROR"}
           /\ tracked = <<response = "success">>

\* The lazy source's connect() failed behind an established tunnel and the
\* handler answered EXECUTION_ERROR without sending the statement.
C30_Witness ==
  /\ entry = "tool"
  /\ hpc = "done"
  /\ sql = <<"select">>
  /\ calls[hcall].result = "failed"
  /\ \E a \in 1..Len(attempts) : attempts[a].err = "connect" /\ attempts[a].tunnel # Undefined
  /\ response = "EXECUTION_ERROR"
  /\ tracked = <<FALSE>>
  /\ sent = <<>>

====
